---------------------------- MODULE Spec2Model ----------------------------
(***************************************************************************)
(* Name uniquification of usdex::core (source/core/library/NameAlgo.cpp):  *)
(* the identifier sanitizers, the getValidNames engine, the NameCache and  *)
(* the deprecated ValidChildNameCache.                                     *)
(*                                                                         *)
(* A std::string / TfToken is a sequence of one-character strings, so that *)
(* sanitizing, suffixing ("%s_%zu") and splitting on ":" are computed      *)
(* character by character.                                                 *)
(***************************************************************************)
EXTENDS Integers, Sequences, FiniteSets, TLC

VARIABLES
    m_primNameCache,      \* NameCacheImpl::m_primNameCache     : SdfPath -> ValidNameCache
    m_propertyNameCache,  \* NameCacheImpl::m_propertyNameCache : SdfPath -> ValidNameCache
    m_cache,              \* ValidChildNameCache::CacheImpl::m_cache
    localCache,           \* the function-local ValidNameCache of the free functions
    stage,                \* composed stage: child and property names of every prim
    layer,                \* one layer of the stage: child and property names of every prim spec
    instance,             \* the cache object the program constructed
    args,                 \* the arguments of the free function being called
    call,                 \* the operation called last
    ret,                  \* the value the latest call returned
    diag,                 \* what the latest call reported: a TF_RUNTIME_ERROR (BOOLEAN), a TF_WARN (its text)
    registry,             \* the SdfLayer registry: the layer loaded under every identifier
    files,                \* the layer files exported so far, by identifier
    joint                 \* the prim at the path of a physics joint, and what its parent is

vars == <<m_primNameCache, m_propertyNameCache, m_cache, localCache, stage, layer, instance, args, call, ret, diag, registry, files, joint>>

---------------------------------------------------------------------------
(* Bounds *)

\* longest list of preferred names handed to a NameCache operation
MaxNames == 2
\* most tokens held in all reservation sets of the caches together
MaxUsed == 2
\* longest list of preferred names handed to a free function
MaxFnNames == 3
\* longest list of reserved names handed to a free function
MaxReserved == 2
\* longest string handed to a sanitizer on its own
MaxRawLen == 3

---------------------------------------------------------------------------
(* Strings *)

F == <<"F">>
F_1 == <<"F", "_", "1">>
F_2 == <<"F", "_", "2">>
F_3 == <<"F", "_", "3">>
FC1 == <<"F", ":", "1">>
A == <<"A">>
EmptyString == <<>>

Letters == {"F", "A", "e", "r", "o"}
Digits == <<"0", "1", "2", "3", "4", "5", "6", "7", "8", "9">>
DigitSet == {Digits[i] : i \in 1..Len(Digits)}

InSeq(x, s) == \E i \in 1..Len(s) : s[i] = x
ToSet(s) == {s[i] : i \in 1..Len(s)}
NoDuplicates(s) == \A i, j \in 1..Len(s) : i # j => s[i] # s[j]

\* "%zu"
RECURSIVE FormatIndex(_)
FormatIndex(n) ==
    IF n < 10 THEN <<Digits[n + 1]>>
    ELSE FormatIndex(n \div 10) \o <<Digits[(n % 10) + 1]>>

\* mutant: the suffixes count from zero
SuffixedNameZeroBased(originalName, index) == originalName \o <<"_">> \o FormatIndex(index - 1)

\* mutant: two consecutive indices are formatted as the same suffix
SuffixedNameHalvedIndex(originalName, index) ==
    originalName \o <<"_">> \o FormatIndex((index + 1) \div 2)

\* TfStringPrintf("%s_%zu", originalName.c_str(), index)
SuffixedName(originalName, index) == originalName \o <<"_">> \o FormatIndex(index)

---------------------------------------------------------------------------
(* Identifier sanitizers *)

IsValidIdentifier(s) ==
    /\ Len(s) > 0
    /\ s[1] \in Letters \cup {"_"}
    /\ \A i \in 1..Len(s) : s[i] \in Letters \cup DigitSet \cup {"_"}

\* usdex::core::detail::makeValidIdentifier (TfUtils.cpp): every character the
\* identifier grammar does not allow at its place becomes "_", the empty string
\* becomes "_"
makeValidIdentifier(s) ==
    IF Len(s) = 0 THEN <<"_">>
    ELSE [i \in 1..Len(s) |->
            IF \/ s[i] \in Letters \cup {"_"}
               \/ (i > 1 /\ s[i] \in DigitSet)
            THEN s[i] ELSE "_"]

getValidPrimName(name) == makeValidIdentifier(name)

\* TfStringSplit(name, ":"): the empty string has no tokens, otherwise every
\* delimiter separates two (possibly empty) tokens
RECURSIVE SplitFrom(_, _, _)
SplitFrom(s, i, cur) ==
    IF i > Len(s) THEN <<cur>>
    ELSE IF s[i] = ":" THEN <<cur>> \o SplitFrom(s, i + 1, <<>>)
    ELSE SplitFrom(s, i + 1, Append(cur, s[i]))

\* mutant: empty tokens are skipped
TfStringSplitSkipsEmpty(s) ==
    IF Len(s) = 0 THEN <<>>
    ELSE SelectSeq(SplitFrom(s, 1, <<>>), LAMBDA token : Len(token) > 0)

TfStringSplit(s) == IF Len(s) = 0 THEN <<>> ELSE SplitFrom(s, 1, <<>>)

\* mutant: every token is followed by the delimiter
RECURSIVE TfStringJoinTrailing(_)
TfStringJoinTrailing(tokens) ==
    IF Len(tokens) = 0 THEN <<>>
    ELSE tokens[1] \o <<":">> \o TfStringJoinTrailing(Tail(tokens))

RECURSIVE TfStringJoin(_)
TfStringJoin(tokens) ==
    IF Len(tokens) = 0 THEN <<>>
    ELSE IF Len(tokens) = 1 THEN tokens[1]
    ELSE tokens[1] \o <<":">> \o TfStringJoin(Tail(tokens))

getValidPropertyName(name) ==
    LET split == TfStringSplit(name)
        tokens == IF Len(split) = 0 THEN <<EmptyString>> ELSE split
        validTokens == [i \in 1..Len(tokens) |-> makeValidIdentifier(tokens[i])]
    IN TfStringJoin(validTokens)

\* the std::function getValidNameFunc handed to getValidNames
getValidNameFunc(func, name) ==
    IF func = "getValidPrimName" THEN getValidPrimName(name) ELSE getValidPropertyName(name)

---------------------------------------------------------------------------
(* ValidNameCache and the uniquification engine *)

\* an empty std::unordered_map / std::map
EmptyMap == [k \in {} |-> 0]

ValidNameCache == [usedNames |-> <<>>, startIndices |-> EmptyMap]

\* mutant: reserving names forgets the start indices
reserveNamesResetsIndices(cache, names) ==
    [usedNames |-> cache.usedNames \o names, startIndices |-> EmptyMap]

\* mutant: the names replace what was reserved
reserveNamesReplaces(cache, names) == [cache EXCEPT !.usedNames = names]

reserveNames(cache, names) == [cache EXCEPT !.usedNames = @ \o names]

\* cache.startIndices[originalName] of an unordered_map: 0 when absent
StartIndex(cache, originalName) ==
    IF originalName \in DOMAIN cache.startIndices THEN cache.startIndices[originalName] ELSE 0

SetStartIndex(cache, originalName, index) ==
    [cache EXCEPT !.startIndices =
        [n \in (DOMAIN cache.startIndices) \cup {originalName} |->
            IF n = originalName THEN index ELSE cache.startIndices[n]]]

\* mutant: the search for a later supplied name starts one element too far
LaterSuppliedOffByOne(names, nameIndex, name) ==
    \E j \in (nameIndex + 2)..Len(names) : names[j] = name

\* is `name` among names[nameIndex + 1 ..]
LaterSupplied(names, nameIndex, name) ==
    \E j \in (nameIndex + 1)..Len(names) : names[j] = name

\* mutant: the valid name itself is taken without looking at usedNames
AcceptNameVerbatimUnchecked(names, nameIndex, validName, name, cache) ==
    \/ name = validName
    \/ (~InSeq(name, cache.usedNames) /\ ~LaterSupplied(names, nameIndex, name))

\* mutant: a free suffixed name is taken even when it is supplied later
AcceptNameNoGuard(names, nameIndex, validName, name, cache) ==
    ~InSeq(name, cache.usedNames)

\* may the while (true) loop of getValidNames break with `name`
AcceptName(names, nameIndex, validName, name, cache) ==
    /\ ~InSeq(name, cache.usedNames)
    /\ (name = validName \/ ~LaterSupplied(names, nameIndex, name))

\* mutant: the accepted name is returned and not added to usedNames
RECURSIVE UniqueNameLoopNoReserve(_, _, _, _, _)
UniqueNameLoopNoReserve(names, nameIndex, func, cache, name) ==
    LET originalName == names[nameIndex]
        validName == getValidNameFunc(func, originalName)
    IN IF AcceptName(names, nameIndex, validName, name, cache)
       THEN [token |-> name, cache |-> cache]
       ELSE LET index == StartIndex(cache, originalName) + 1
            IN UniqueNameLoopNoReserve(names, nameIndex, func,
                                       SetStartIndex(cache, originalName, index),
                                       getValidNameFunc(func, SuffixedName(originalName, index)))

\* the while (true) loop for names[nameIndex]
RECURSIVE UniqueNameLoop(_, _, _, _, _)
UniqueNameLoop(names, nameIndex, func, cache, name) ==
    LET originalName == names[nameIndex]
        validName == getValidNameFunc(func, originalName)
    IN IF AcceptName(names, nameIndex, validName, name, cache)
       THEN [token |-> name, cache |-> [cache EXCEPT !.usedNames = Append(@, name)]]
       ELSE LET index == StartIndex(cache, originalName) + 1
            IN UniqueNameLoop(names, nameIndex, func,
                              SetStartIndex(cache, originalName, index),
                              getValidNameFunc(func, SuffixedName(originalName, index)))

\* mutant: the tokens are collected in reverse order
RECURSIVE NamesLoopPrepends(_, _, _, _, _)
NamesLoopPrepends(names, nameIndex, func, cache, result) ==
    IF nameIndex > Len(names) THEN [result |-> result, cache |-> cache]
    ELSE LET one == UniqueNameLoop(names, nameIndex, func, cache,
                                   getValidNameFunc(func, names[nameIndex]))
         IN NamesLoopPrepends(names, nameIndex + 1, func, one.cache, <<one.token>> \o result)

\* the for loop over nameIndex
RECURSIVE NamesLoop(_, _, _, _, _)
NamesLoop(names, nameIndex, func, cache, result) ==
    IF nameIndex > Len(names) THEN [result |-> result, cache |-> cache]
    ELSE LET one == UniqueNameLoop(names, nameIndex, func, cache,
                                   getValidNameFunc(func, names[nameIndex]))
         IN NamesLoop(names, nameIndex + 1, func, one.cache, Append(result, one.token))

getValidNames(names, func, cache) ==
    IF Len(names) = 0 THEN [result |-> <<>>, cache |-> cache]
    ELSE NamesLoop(names, 1, func, cache, <<>>)

---------------------------------------------------------------------------
(* SdfPath, UsdPrim and SdfPrimSpecHandle parents *)

AbsoluteRootPath == "/"

\* the SdfPath values handed to the cache: the pseudo-root, a prim path, a
\* property path, a variant selection path, a prim path below a variant
\* selection, a relative prim path
Paths == {"/", "/A", "/A.p", "/A{v=s}", "/A{v=s}B", "A"}

IsAbsoluteRootPath(p) == p = AbsoluteRootPath
IsPrimPath(p) == p \in {"/A", "/A{v=s}B", "A"}
ContainsPrimVariantSelection(p) == p \in {"/A{v=s}", "/A{v=s}B"}
IsAbsolutePath(p) == p # "A"

\* the prims of the stage and the prim specs of the layer
PrimPaths == {"/", "/A"}

PathParents == {[form |-> "SdfPath", status |-> "ok", path |-> p] : p \in Paths}
PrimParents ==
    {[form |-> "UsdPrim", status |-> "ok", path |-> p] : p \in PrimPaths}
    \cup {[form |-> "UsdPrim", status |-> "invalid", path |-> ""]}
SpecParents ==
    {[form |-> "SdfPrimSpec", status |-> "ok", path |-> p] : p \in PrimPaths}
    \cup {[form |-> "SdfPrimSpec", status |-> s, path |-> ""] : s \in {"null", "dormant"}}
Parents == PathParents \cup PrimParents \cup SpecParents
NoParent == [form |-> "none", status |-> "ok", path |-> ""]

Valid == [ok |-> TRUE, reason |-> ""]
Invalid(reason) == [ok |-> FALSE, reason |-> reason]

\* mutant: the variant selection branch reports the reason of the prim path branch
isValidParentPathCopiedReason(parent, allowPseudoRoot) ==
    IF IsAbsoluteRootPath(parent.path)
    THEN IF allowPseudoRoot THEN Valid
         ELSE Invalid("Parent path is not usable as a name cache key, must not be pseudo root.")
    ELSE IF ~IsPrimPath(parent.path)
    THEN Invalid("Parent path is not usable as a name cache key, must be a prim path.")
    ELSE IF ContainsPrimVariantSelection(parent.path)
    THEN Invalid("Parent path is not usable as a name cache key, must be a prim path.")
    ELSE IF ~IsAbsolutePath(parent.path)
    THEN Invalid("Parent path is not usable as a name cache key, must be absolute.")
    ELSE Valid

\* mutant: a relative prim path is taken as a key
isValidParentPathRelativeAllowed(parent, allowPseudoRoot) ==
    IF IsAbsoluteRootPath(parent.path)
    THEN IF allowPseudoRoot THEN Valid
         ELSE Invalid("Parent path is not usable as a name cache key, must not be pseudo root.")
    ELSE IF ~IsPrimPath(parent.path)
    THEN Invalid("Parent path is not usable as a name cache key, must be a prim path.")
    ELSE IF ContainsPrimVariantSelection(parent.path)
    THEN Invalid("Parent path is not usable as a name cache key, must not contain variant selections.")
    ELSE Valid

isValidParentPath(parent, allowPseudoRoot) ==
    IF IsAbsoluteRootPath(parent.path)
    THEN IF allowPseudoRoot THEN Valid
         ELSE Invalid("Parent path is not usable as a name cache key, must not be pseudo root.")
    ELSE IF ~IsPrimPath(parent.path)
    THEN Invalid("Parent path is not usable as a name cache key, must be a prim path.")
    ELSE IF ContainsPrimVariantSelection(parent.path)
    THEN Invalid("Parent path is not usable as a name cache key, must not contain variant selections.")
    ELSE IF ~IsAbsolutePath(parent.path)
    THEN Invalid("Parent path is not usable as a name cache key, must be absolute.")
    ELSE Valid

isValidParentPrim(parent, allowPseudoRoot) ==
    IF parent.status # "ok"
    THEN Invalid("Parent prim is not usable as a name cache key. Prim must be valid.")
    ELSE IF ~allowPseudoRoot /\ parent.path = AbsoluteRootPath
    THEN Invalid("Parent prim is not usable as a name cache key, must not be pseudo root.")
    ELSE Valid

isValidParentSpec(parent, allowPseudoRoot) ==
    IF parent.status = "null"
    THEN Invalid("Parent prim spec is not usable as a name cache key. Prim spec must not be null.")
    ELSE IF parent.status = "dormant"
    THEN Invalid("Parent prim spec is not usable as a name cache key. Prim spec must be valid.")
    ELSE IF ~allowPseudoRoot /\ parent.path = AbsoluteRootPath
    THEN Invalid("Parent prim spec is not usable as a name cache key, must not be pseudo root.")
    ELSE Valid

isValidParent(parent, allowPseudoRoot) ==
    IF parent.form = "SdfPath" THEN isValidParentPath(parent, allowPseudoRoot)
    ELSE IF parent.form = "UsdPrim" THEN isValidParentPrim(parent, allowPseudoRoot)
    ELSE isValidParentSpec(parent, allowPseudoRoot)

getCacheKey(parent) == parent.path

reserveChildNames(cache, parent) ==
    IF parent.form = "SdfPath" THEN cache
    ELSE IF parent.form = "UsdPrim" THEN reserveNames(cache, stage.children[parent.path])
    ELSE reserveNames(cache, layer.children[parent.path])

reserveChildPropertyNames(cache, parent) ==
    IF parent.form = "SdfPath" THEN cache
    ELSE IF parent.form = "UsdPrim" THEN reserveNames(cache, stage.properties[parent.path])
    ELSE reserveNames(cache, layer.properties[parent.path])

---------------------------------------------------------------------------
(* std::map<SdfPath, ValidNameCache> *)

Put(map, key, value) ==
    [k \in (DOMAIN map) \cup {key} |-> IF k = key THEN value ELSE map[k]]

\* mutant: erase empties the reserved names and keeps the entry
EraseKeepsEntry(map, key) ==
    IF key \in DOMAIN map THEN [map EXCEPT ![key].usedNames = <<>>] ELSE map

Erase(map, key) == [k \in (DOMAIN map) \ {key} |-> map[k]]

\* mutant: insert overwrites the entry of a key that is present
InsertOverwrites(map, key) == [entry |-> ValidNameCache, inserted |-> TRUE]

\* map.insert(std::make_pair(key, ValidNameCache())): the entry the returned
\* iterator points at, and whether it was inserted
Insert(map, key) ==
    IF key \in DOMAIN map THEN [entry |-> map[key], inserted |-> FALSE]
    ELSE [entry |-> ValidNameCache, inserted |-> TRUE]

RECURSIVE SumUsed(_, _)
SumUsed(map, keys) ==
    IF keys = {} THEN 0
    ELSE LET k == CHOOSE x \in keys : TRUE
         IN Len(map[k].usedNames) + SumUsed(map, keys \ {k})

TotalUsed(prim, property, child) ==
    SumUsed(prim, DOMAIN prim) + SumUsed(property, DOMAIN property) + SumUsed(child, DOMAIN child)

WithinBounds(prim, property, child) == TotalUsed(prim, property, child) <= MaxUsed

\* every name handed to the engine adds one token
RoomFor(names) ==
    TotalUsed(m_primNameCache, m_propertyNameCache, m_cache) + Len(names) <= MaxUsed

\* mutant: the children of the parent are read on every call, not only when the
\* entry is created
uncheckedGetPrimNamesRereads(parent, names) ==
    LET insertIt == Insert(m_primNameCache, getCacheKey(parent))
        entry == reserveChildNames(insertIt.entry, parent)
        out == getValidNames(names, "getValidPrimName", entry)
    IN [result |-> out.result, map |-> Put(m_primNameCache, getCacheKey(parent), out.cache)]

uncheckedGetPrimNames(parent, names) ==
    LET insertIt == Insert(m_primNameCache, getCacheKey(parent))
        entry == IF insertIt.inserted THEN reserveChildNames(insertIt.entry, parent)
                 ELSE insertIt.entry
        out == getValidNames(names, "getValidPrimName", entry)
    IN [result |-> out.result, map |-> Put(m_primNameCache, getCacheKey(parent), out.cache)]

\* mutant: the property names are reserved in the prim names of the parent
uncheckedGetPropertyNamesInPrimScope(parent, names) ==
    LET insertIt == Insert(m_primNameCache, getCacheKey(parent))
        entry == IF insertIt.inserted THEN reserveChildPropertyNames(insertIt.entry, parent)
                 ELSE insertIt.entry
        out == getValidNames(names, "getValidPropertyName", entry)
    IN [result |-> out.result, map |-> Put(m_propertyNameCache, getCacheKey(parent), out.cache)]

uncheckedGetPropertyNames(parent, names) ==
    LET insertIt == Insert(m_propertyNameCache, getCacheKey(parent))
        entry == IF insertIt.inserted THEN reserveChildPropertyNames(insertIt.entry, parent)
                 ELSE insertIt.entry
        out == getValidNames(names, "getValidPropertyName", entry)
    IN [result |-> out.result, map |-> Put(m_propertyNameCache, getCacheKey(parent), out.cache)]

---------------------------------------------------------------------------
(* Inputs *)

\* the preferred names handed to the caches: a valid identifier and a name that
\* needs sanitizing (to F_1 as a prim name, to F:_ as a property name)
CacheRawNames == {F, FC1}

NameLists(S, n) == UNION {[1..k -> S] : k \in 0..n}

CacheNameLists == NameLists(CacheRawNames, MaxNames)

\* a rejected call returns before it reads the names: one list stands for all
NamesFor(parent, allowPseudoRoot, lists) ==
    IF isValidParent(parent, allowPseudoRoot).ok THEN lists ELSE {CHOOSE l \in lists : TRUE}

\* parents of the operations that have no SdfPath overload
HandleParents == PrimParents \cup SpecParents

\* valid prims, the only parents ValidChildNameCache and the free functions can
\* be handed without dereferencing an invalid handle
ValidPrims == {p \in PrimParents : p.status = "ok"}

NoArgs ==
    [func |-> "none", parent |-> NoParent, allowPseudoRoot |-> FALSE, names |-> <<>>,
     reservedNames |-> <<>>]

---------------------------------------------------------------------------
(* NameCache operations: what a call leaves in the two maps, what it returns *)
(* and whether it reported a TF_RUNTIME_ERROR                               *)

Outcome(prim, property, value, error) ==
    [prim |-> prim, property |-> property, ret |-> value, diag |-> error]

\* TF_RUNTIME_ERROR("Unable to ...: %s", reason.c_str()) and the return of the
\* empty token or vector
Reject == Outcome(m_primNameCache, m_propertyNameCache, <<>>, TRUE)

getPrimName(parent, name) ==
    IF ~isValidParent(parent, TRUE).ok THEN Reject
    ELSE LET validNames == uncheckedGetPrimNames(parent, <<name>>)
         IN Outcome(validNames.map, m_propertyNameCache,
                    IF Len(validNames.result) > 0 THEN validNames.result[1] ELSE <<>>, FALSE)

getPrimNames(parent, names) ==
    IF ~isValidParent(parent, TRUE).ok THEN Reject
    ELSE LET validNames == uncheckedGetPrimNames(parent, names)
         IN Outcome(validNames.map, m_propertyNameCache, validNames.result, FALSE)

getPropertyName(parent, name) ==
    IF ~isValidParent(parent, FALSE).ok THEN Reject
    ELSE LET validNames == uncheckedGetPropertyNames(parent, <<name>>)
         IN Outcome(m_primNameCache, validNames.map,
                    IF Len(validNames.result) > 0 THEN validNames.result[1] ELSE <<>>, FALSE)

getPropertyNames(parent, names) ==
    IF ~isValidParent(parent, FALSE).ok THEN Reject
    ELSE LET validNames == uncheckedGetPropertyNames(parent, names)
         IN Outcome(m_primNameCache, validNames.map, validNames.result, FALSE)

\* insert(key, ValidNameCache()) followed by reserveChildNames on the entry
UpdatedPrimMap(parent) ==
    Put(m_primNameCache, getCacheKey(parent),
        reserveChildNames(Insert(m_primNameCache, getCacheKey(parent)).entry, parent))

UpdatedPropertyMap(parent) ==
    Put(m_propertyNameCache, getCacheKey(parent),
        reserveChildPropertyNames(Insert(m_propertyNameCache, getCacheKey(parent)).entry, parent))

updatePrimNames(parent) ==
    IF ~isValidParent(parent, TRUE).ok THEN Reject
    ELSE Outcome(UpdatedPrimMap(parent), m_propertyNameCache, <<>>, FALSE)

updatePropertyNames(parent) ==
    IF ~isValidParent(parent, FALSE).ok THEN Reject
    ELSE Outcome(m_primNameCache, UpdatedPropertyMap(parent), <<>>, FALSE)

update(parent) ==
    IF ~isValidParent(parent, TRUE).ok THEN Reject
    ELSE Outcome(UpdatedPrimMap(parent), UpdatedPropertyMap(parent), <<>>, FALSE)

\* mutant: the property names of the parent are erased with its prim names
clearPrimNamesClearsBoth(parent) ==
    IF ~isValidParent(parent, TRUE).ok THEN Reject
    ELSE Outcome(Erase(m_primNameCache, getCacheKey(parent)),
                 Erase(m_propertyNameCache, getCacheKey(parent)), <<>>, FALSE)

clearPrimNames(parent) ==
    IF ~isValidParent(parent, TRUE).ok THEN Reject
    ELSE Outcome(Erase(m_primNameCache, getCacheKey(parent)), m_propertyNameCache, <<>>, FALSE)

clearPropertyNames(parent) ==
    IF ~isValidParent(parent, FALSE).ok THEN Reject
    ELSE Outcome(m_primNameCache, Erase(m_propertyNameCache, getCacheKey(parent)), <<>>, FALSE)

clear(parent) ==
    IF ~isValidParent(parent, TRUE).ok THEN Reject
    ELSE Outcome(Erase(m_primNameCache, getCacheKey(parent)),
                 Erase(m_propertyNameCache, getCacheKey(parent)), <<>>, FALSE)

\* the call `op` of the NameCache is made and returns with `out`
Returns(op, out) ==
    /\ instance = "NameCache"
    /\ WithinBounds(out.prim, out.property, m_cache)
    /\ m_primNameCache' = out.prim
    /\ m_propertyNameCache' = out.property
    /\ call' = op
    /\ ret' = out.ret
    /\ diag' = out.diag
    /\ UNCHANGED <<m_cache, localCache, stage, layer, instance, args, registry, files, joint>>

GetPrimName(parent, name) ==
    /\ isValidParent(parent, TRUE).ok => RoomFor(<<name>>)
    /\ Returns("getPrimName", getPrimName(parent, name))

GetPrimNames(parent, names) ==
    /\ isValidParent(parent, TRUE).ok => RoomFor(names)
    /\ Returns("getPrimNames", getPrimNames(parent, names))

GetPropertyName(parent, name) ==
    /\ isValidParent(parent, FALSE).ok => RoomFor(<<name>>)
    /\ Returns("getPropertyName", getPropertyName(parent, name))

GetPropertyNames(parent, names) ==
    /\ isValidParent(parent, FALSE).ok => RoomFor(names)
    /\ Returns("getPropertyNames", getPropertyNames(parent, names))

UpdatePrimNames(parent) ==
    /\ parent \in HandleParents
    /\ Returns("updatePrimNames", updatePrimNames(parent))

UpdatePropertyNames(parent) ==
    /\ parent \in HandleParents
    /\ Returns("updatePropertyNames", updatePropertyNames(parent))

Update(parent) ==
    /\ parent \in HandleParents
    /\ Returns("update", update(parent))

ClearPrimNames(parent) ==
    /\ parent \in Parents
    /\ Returns("clearPrimNames", clearPrimNames(parent))

ClearPropertyNames(parent) ==
    /\ parent \in Parents
    /\ Returns("clearPropertyNames", clearPropertyNames(parent))

Clear(parent) ==
    /\ parent \in Parents
    /\ Returns("clear", clear(parent))

---------------------------------------------------------------------------
(* ValidChildNameCache operations *)

implGetValidChildNames(prim, names) ==
    LET insertIt == Insert(m_cache, prim.path)
        entry == IF insertIt.inserted THEN reserveChildNames(insertIt.entry, prim)
                 ELSE insertIt.entry
        out == getValidNames(names, "getValidPrimName", entry)
    IN [result |-> out.result, map |-> Put(m_cache, prim.path, out.cache)]

\* _tokens->error
ErrorToken == <<"e", "r", "r", "o", "r">>

implGetValidChildName(prim, name) ==
    LET validNames == implGetValidChildNames(prim, <<name>>)
    IN [result |-> IF Len(validNames.result) > 0 THEN validNames.result[1] ELSE ErrorToken,
        map |-> validNames.map]

implUpdate(prim) ==
    Put(m_cache, prim.path, reserveChildNames(Insert(m_cache, prim.path).entry, prim))

implClear(prim) == Erase(m_cache, prim.path)

\* the call `op` of the ValidChildNameCache is made and returns `value`
ChildCacheReturns(op, map, value) ==
    /\ instance = "ValidChildNameCache"
    /\ WithinBounds(m_primNameCache, m_propertyNameCache, map)
    /\ m_cache' = map
    /\ call' = op
    /\ ret' = value
    /\ diag' = FALSE
    /\ UNCHANGED <<m_primNameCache, m_propertyNameCache, localCache, stage, layer, instance, args, registry, files, joint>>

ChildCacheGetValidChildNames(prim, names) ==
    /\ RoomFor(names)
    /\ LET out == implGetValidChildNames(prim, names)
       IN ChildCacheReturns("ValidChildNameCache::getValidChildNames", out.map, out.result)

ChildCacheGetValidChildName(prim, name) ==
    /\ RoomFor(<<name>>)
    /\ LET out == implGetValidChildName(prim, name)
       IN ChildCacheReturns("ValidChildNameCache::getValidChildName", out.map, out.result)

ChildCacheUpdate(prim) ==
    /\ prim \in ValidPrims
    /\ ChildCacheReturns("ValidChildNameCache::update", implUpdate(prim), <<>>)

ChildCacheClear(prim) ==
    /\ prim \in ValidPrims
    /\ ChildCacheReturns("ValidChildNameCache::clear", implClear(prim), <<>>)

---------------------------------------------------------------------------
(* Layers and their identifiers *)

\* identifiers are split at the dot of the file extension: the empty identifier,
\* one of a format no plugin reads, one of a USD text file
NoIdentifier == <<>>
TestFoo == <<"test", "foo">>
TestUsda == <<"test", "usda">>
Identifiers == {NoIdentifier, TestFoo, TestUsda}

\* UsdStage::IsSupportedFile: the extension names a USD file format
IsSupportedFile(identifier) ==
    /\ Len(identifier) > 1
    /\ identifier[Len(identifier)] \in {"usd", "usda", "usdc"}

\* no layer is loaded: SdfLayer::Find returns a null handle
NoLayer == <<>>
NullStage == <<"nullptr">>
Unauthored == "unauthored"

\* an anonymous layer as UsdStage::CreateInMemory makes it: no prim spec, no
\* metadata (metersPerUnit 0 stands for the unauthored value), no comment, no
\* edit that a file lacks
EmptyLayer ==
    [upAxis |-> Unauthored, metersPerUnit |-> 0, defaultPrim |-> Unauthored,
     primSpecs |-> {}, creator |-> Unauthored, comment |-> "", dirty |-> FALSE]

\* what SdfLayer::Export and SdfLayer::Save write: the layer, which then has no
\* unsaved edit
Saved(rootLayer) == [rootLayer EXCEPT !.dirty = FALSE]

EmptyRegistry == [identifier \in Identifiers |-> NoLayer]

\* no prim at a path, and the attributes and relationships a joint prim can have
NoPrim ==
    [type |-> "none", body0 |-> {}, body1 |-> {}, localFrame0 |-> <<>>, localFrame1 |-> <<>>,
     axis |-> "", limits |-> {}]
NoJoint == [parent |-> "prim", prim |-> NoPrim]

---------------------------------------------------------------------------
(* The caches on a fixed stage *)

\* /A has a child F that another layer contributes and a property F authored in
\* this layer; the pseudo-root has the child A and no property
InitStage ==
    /\ stage = [children |-> [p \in PrimPaths |-> IF p = "/" THEN <<A>> ELSE <<F>>],
                properties |-> [p \in PrimPaths |-> IF p = "/" THEN <<>> ELSE <<F>>]]
    /\ layer = [children |-> [p \in PrimPaths |-> IF p = "/" THEN <<A>> ELSE <<>>],
                properties |-> [p \in PrimPaths |-> IF p = "/" THEN <<>> ELSE <<F>>]]

Init ==
    /\ m_primNameCache = EmptyMap
    /\ m_propertyNameCache = EmptyMap
    /\ m_cache = EmptyMap
    /\ localCache = ValidNameCache
    /\ InitStage
    /\ instance \in {"NameCache", "ValidChildNameCache"}
    /\ args = NoArgs
    /\ call = "none"
    /\ ret = <<>>
    /\ diag = FALSE
    /\ registry = EmptyRegistry
    /\ files = EmptyRegistry
    /\ joint = NoJoint

\* a NameCache and a ValidChildNameCache share no state: the program is followed
\* through the calls on the one it constructed
Next ==
    \/ \E parent \in Parents :
         \E name \in NamesFor(parent, TRUE, CacheRawNames) : GetPrimName(parent, name)
    \/ \E parent \in Parents :
         \E names \in NamesFor(parent, TRUE, CacheNameLists) : GetPrimNames(parent, names)
    \/ \E parent \in Parents :
         \E name \in NamesFor(parent, FALSE, CacheRawNames) : GetPropertyName(parent, name)
    \/ \E parent \in Parents :
         \E names \in NamesFor(parent, FALSE, CacheNameLists) : GetPropertyNames(parent, names)
    \/ \E parent \in HandleParents : UpdatePrimNames(parent)
    \/ \E parent \in HandleParents : UpdatePropertyNames(parent)
    \/ \E parent \in HandleParents : Update(parent)
    \/ \E parent \in Parents : ClearPrimNames(parent)
    \/ \E parent \in Parents : ClearPropertyNames(parent)
    \/ \E parent \in Parents : Clear(parent)
    \/ \E prim \in ValidPrims, names \in CacheNameLists : ChildCacheGetValidChildNames(prim, names)
    \/ \E prim \in ValidPrims, name \in CacheRawNames : ChildCacheGetValidChildName(prim, name)
    \/ \E prim \in ValidPrims : ChildCacheUpdate(prim)
    \/ \E prim \in ValidPrims : ChildCacheClear(prim)

Spec == Init /\ [][Next]_vars

---------------------------------------------------------------------------
(* The prim names of a NameCache on a stage that is edited between the calls *)

\* a child prim is authored under `path` in the layer, by the caller and not
\* through the cache: the stage and the layer both have it from then on
AddChild(path, name) ==
    /\ instance = "NameCache"
    /\ ~InSeq(name, stage.children[path])
    /\ stage' = [stage EXCEPT !.children[path] = Append(@, name)]
    /\ layer' = [layer EXCEPT !.children[path] = Append(@, name)]
    /\ call' = "AddChild"
    /\ ret' = <<>>
    /\ diag' = FALSE
    /\ UNCHANGED <<m_primNameCache, m_propertyNameCache, m_cache, localCache, instance, args, registry, files, joint>>

NextStale ==
    \/ \E parent \in Parents :
         \E name \in NamesFor(parent, TRUE, CacheRawNames) : GetPrimName(parent, name)
    \/ \E parent \in Parents :
         \E names \in NamesFor(parent, TRUE, CacheNameLists) : GetPrimNames(parent, names)
    \/ \E parent \in HandleParents : UpdatePrimNames(parent)
    \/ \E parent \in HandleParents : Update(parent)
    \/ \E parent \in Parents : ClearPrimNames(parent)
    \/ \E path \in PrimPaths : AddChild(path, F_1)

SpecStale == Init /\ [][NextStale]_vars

---------------------------------------------------------------------------
(* The free functions, each called once on arguments drawn from bounded sets *)

\* preferred names: valid identifiers, one that looks suffixed, one that needs
\* sanitizing, the empty string
FnRawNames == {F, F_1, FC1, EmptyString}
\* a parent prim of an instancing stage: valid or not, a plain prim, an instance
\* or an instance proxy, with the child F or without a child; the prims below
\* an instance or an instance proxy are instance proxies
EditablePrims ==
    [valid : BOOLEAN, kind : {"prim", "instance", "instanceProxy"}, children : {{}, {F}}]

\* a location of an instancing stage: the stage is valid or not, the path is an
\* absolute prim path, a relative prim path or a property path, its parent is a
\* plain prim, an instance or an instance proxy, a prim is there or not
EditableLocations ==
    [stage : BOOLEAN, path : {"/A/F", "A/F", "/A.F"},
     parent : {"prim", "instance", "instanceProxy"}, exists : BOOLEAN]

\* isEditablePrimLocation(const UsdStagePtr, const SdfPath&, std::string*)
isEditablePrimLocationPath(location) ==
    IF ~location.stage THEN [ok |-> FALSE, reason |-> "Invalid UsdStage."]
    ELSE IF location.path # "/A/F"
    THEN [ok |-> FALSE, reason |-> "is not a valid absolute prim path."]
    ELSE IF location.exists /\ location.parent \in {"instance", "instanceProxy"}
    THEN [ok |-> FALSE, reason |-> "is an instance proxy, authoring is not allowed."]
    ELSE [ok |-> TRUE, reason |-> ""]

\* isEditablePrimLocation(const UsdPrim&, const std::string&, std::string*)
isEditablePrimLocation(prim, name) ==
    IF ~prim.valid THEN [ok |-> FALSE, reason |-> "Invalid UsdPrim"]
    ELSE IF prim.kind = "instanceProxy"
    THEN [ok |-> FALSE, reason |-> "is an instance proxy, authoring is not allowed."]
    ELSE IF ~IsValidIdentifier(name)
    THEN [ok |-> FALSE, reason |-> "is not a valid prim name"]
    ELSE IF name \in prim.children /\ prim.kind \in {"instance", "instanceProxy"}
    THEN [ok |-> FALSE, reason |-> "is an instance proxy, authoring is not allowed."]
    ELSE [ok |-> TRUE, reason |-> ""]

FnReservedNames == {F, F_1, F_2}

\* the characters of the strings handed to a sanitizer on its own: a letter, a
\* digit, the namespace delimiter, a character no identifier has
RawChars == {"F", "1", ":", "-"}
RawStrings == NameLists(RawChars, MaxRawLen)

FnArgs ==
    [func : {"getValidPrimNames", "getValidPropertyNames"}, parent : {NoParent},
     allowPseudoRoot : {FALSE}, names : NameLists(FnRawNames, MaxFnNames),
     reservedNames : NameLists(FnReservedNames, MaxReserved)]
    \cup [func : {"getValidChildNames"}, parent : ValidPrims, allowPseudoRoot : {FALSE},
          names : NameLists(FnRawNames, MaxFnNames), reservedNames : {<<>>}]
    \cup [func : {"getValidChildName"}, parent : PrimParents, allowPseudoRoot : {FALSE},
          names : {<<name>> : name \in {F, FC1, ErrorToken, EmptyString}},
          reservedNames : {<<>>}]
    \cup [func : {"getValidPrimName", "getValidPropertyName"}, parent : {NoParent},
          allowPseudoRoot : {FALSE}, names : {<<name>> : name \in RawStrings},
          reservedNames : {<<>>}]
    \cup [func : {"isValidParent"}, parent : Parents, allowPseudoRoot : BOOLEAN,
          names : {<<>>}, reservedNames : {<<>>}]
    \cup [func : {"isEditablePrimLocation"}, parent : EditablePrims, allowPseudoRoot : {FALSE},
          names : {<<name>> : name \in RawStrings}, reservedNames : {<<>>}]
    \cup [func : {"isEditablePrimLocationPath"}, parent : EditableLocations,
          allowPseudoRoot : {FALSE}, names : {<<>>}, reservedNames : {<<>>}]

FnGetValidPrimNames ==
    /\ call = "none"
    /\ args.func = "getValidPrimNames"
    /\ LET out == getValidNames(args.names, "getValidPrimName",
                                reserveNames(ValidNameCache, args.reservedNames))
       IN /\ localCache' = out.cache
          /\ ret' = out.result
    /\ call' = "getValidPrimNames"
    /\ diag' = FALSE
    /\ UNCHANGED <<m_primNameCache, m_propertyNameCache, m_cache, stage, layer, instance, args, registry, files, joint>>

FnGetValidPropertyNames ==
    /\ call = "none"
    /\ args.func = "getValidPropertyNames"
    /\ LET out == getValidNames(args.names, "getValidPropertyName",
                                reserveNames(ValidNameCache, args.reservedNames))
       IN /\ localCache' = out.cache
          /\ ret' = out.result
    /\ call' = "getValidPropertyNames"
    /\ diag' = FALSE
    /\ UNCHANGED <<m_primNameCache, m_propertyNameCache, m_cache, stage, layer, instance, args, registry, files, joint>>

FnGetValidChildNames ==
    /\ call = "none"
    /\ args.func = "getValidChildNames"
    /\ LET out == getValidNames(args.names, "getValidPrimName",
                                reserveChildNames(ValidNameCache, args.parent))
       IN /\ localCache' = out.cache
          /\ ret' = out.result
    /\ call' = "getValidChildNames"
    /\ diag' = FALSE
    /\ UNCHANGED <<m_primNameCache, m_propertyNameCache, m_cache, stage, layer, instance, args, registry, files, joint>>

\* usdex::core::getValidChildName: a NameCache of its own is updated with the
\* children of the prim and asked for one name; `unable` is the runtime error of
\* the two calls on an invalid prim, `diag` the "Could not produce a valid child
\* name" runtime error
getValidChildName(prim, name) ==
    LET usable == isValidParent(prim, TRUE).ok
        key == getCacheKey(prim)
        updated == IF usable
                   THEN Put(EmptyMap, key, reserveChildNames(Insert(EmptyMap, key).entry, prim))
                   ELSE EmptyMap
        validNames == IF usable
                      THEN getValidNames(<<name>>, "getValidPrimName", Insert(updated, key).entry).result
                      ELSE <<>>
        result == IF Len(validNames) > 0 THEN validNames[1] ELSE <<>>
    IN [ret |-> result, unable |-> ~usable, diag |-> result = ErrorToken]

FnGetValidChildName ==
    /\ call = "none"
    /\ args.func = "getValidChildName"
    /\ LET out == getValidChildName(args.parent, args.names[1])
       IN /\ ret' = out.ret
          /\ diag' = (out.unable \/ out.diag)
    /\ call' = "getValidChildName"
    /\ UNCHANGED <<m_primNameCache, m_propertyNameCache, m_cache, localCache, stage, layer, instance, args, registry, files, joint>>

\* the sanitizer of prim names applied to one string
FnGetValidPrimName ==
    /\ call = "none"
    /\ args.func = "getValidPrimName"
    /\ ret' = getValidPrimName(args.names[1])
    /\ call' = "getValidPrimName"
    /\ diag' = FALSE
    /\ UNCHANGED <<m_primNameCache, m_propertyNameCache, m_cache, localCache, stage, layer, instance, args, registry, files, joint>>

\* the sanitizer of property names applied to one string
FnGetValidPropertyName ==
    /\ call = "none"
    /\ args.func = "getValidPropertyName"
    /\ ret' = getValidPropertyName(args.names[1])
    /\ call' = "getValidPropertyName"
    /\ diag' = FALSE
    /\ UNCHANGED <<m_primNameCache, m_propertyNameCache, m_cache, localCache, stage, layer, instance, args, registry, files, joint>>

\* the validity check of a cache key: the bool it returns and *reason
FnIsValidParent ==
    /\ call = "none"
    /\ args.func = "isValidParent"
    /\ ret' = isValidParent(args.parent, args.allowPseudoRoot)
    /\ call' = "isValidParent"
    /\ diag' = FALSE
    /\ UNCHANGED <<m_primNameCache, m_propertyNameCache, m_cache, localCache, stage, layer, instance, args, registry, files, joint>>

FnIsEditablePrimLocation ==
    /\ call = "none"
    /\ args.func = "isEditablePrimLocation"
    /\ ret' = isEditablePrimLocation(args.parent, args.names[1])
    /\ call' = "isEditablePrimLocation"
    /\ diag' = FALSE
    /\ UNCHANGED <<m_primNameCache, m_propertyNameCache, m_cache, localCache, stage, layer, instance, args, registry, files, joint>>

FnIsEditablePrimLocationPath ==
    /\ call = "none"
    /\ args.func = "isEditablePrimLocationPath"
    /\ ret' = isEditablePrimLocationPath(args.parent)
    /\ call' = "isEditablePrimLocationPath"
    /\ diag' = FALSE
    /\ UNCHANGED <<m_primNameCache, m_propertyNameCache, m_cache, localCache, stage, layer, instance, args, registry, files, joint>>

InitFn ==
    /\ m_primNameCache = EmptyMap
    /\ m_propertyNameCache = EmptyMap
    /\ m_cache = EmptyMap
    /\ localCache = ValidNameCache
    /\ InitStage
    /\ instance = "none"
    /\ args \in FnArgs
    /\ call = "none"
    /\ ret = <<>>
    /\ diag = FALSE
    /\ registry = EmptyRegistry
    /\ files = EmptyRegistry
    /\ joint = NoJoint

NextFn ==
    \/ FnGetValidPrimNames
    \/ FnGetValidPropertyNames
    \/ FnGetValidChildNames
    \/ FnGetValidChildName
    \/ FnGetValidPrimName
    \/ FnGetValidPropertyName
    \/ FnIsValidParent
    \/ FnIsEditablePrimLocation
    \/ FnIsEditablePrimLocationPath

SpecFn == InitFn /\ [][NextFn]_vars

---------------------------------------------------------------------------
(* Stage creation and configuration (source/core/library/StageAlgo.cpp) *)

\* the tokens handed in as upAxis: the two UsdGeomTokens, their lower-case
\* spellings, another axis, the empty token
UpAxes == {"Y", "Z", "y", "z", "x", ""}
\* linearUnits in hundredths: centimetres are 1, metres 100
LinearUnits == {-100, 0, 1, 100}
\* default prim names: an identifier, a name no identifier grammar accepts
DefaultPrimNames == {F, <<"1">>}
NoMetadata == "nullopt"
\* what the environment does to the file operations of one call
FileOutcomes == {"ok", "ExportFails", "ReloadFails"}

\* SdfLayer::Find(identifier) is not null
IsLoaded(layers, identifier) == layers[identifier] # NoLayer
LayerOf(layers, identifier) == layers[identifier][1]

\* mutant: only the UsdGeomTokens are accepted
validateStageMetricsUpperCaseOnly(upAxis, linearUnits) ==
    IF upAxis # "Z" /\ upAxis # "Y"
    THEN [ok |-> FALSE, reason |-> "Unsupported up axis value"]
    ELSE IF linearUnits <= 0
    THEN [ok |-> FALSE, reason |-> "Linear units value must be greater than zero"]
    ELSE [ok |-> TRUE, reason |-> ""]

validateStageMetrics(upAxis, linearUnits) ==
    IF /\ (upAxis # "Z" /\ upAxis # "Y")
       /\ (upAxis # "z" /\ upAxis # "y")
    THEN [ok |-> FALSE, reason |-> "Unsupported up axis value"]
    ELSE IF linearUnits <= 0
    THEN [ok |-> FALSE, reason |-> "Linear units value must be greater than zero"]
    ELSE [ok |-> TRUE, reason |-> ""]

\* usdex::core::setLayerAuthoringMetadata (LayerAlgo.cpp): the "creator" key of
\* the custom layer data
setLayerAuthoringMetadata(rootLayer, value) == [rootLayer EXCEPT !.creator = value]

\* usdex::core::hasLayerAuthoringMetadata: the layer has the "creator" key
hasLayerAuthoringMetadata(rootLayer) == rootLayer.creator # Unauthored

\* UsdGeomSetStageUpAxis authors nothing but the two UsdGeomTokens
UsdGeomSetStageUpAxis(rootLayer, axis) ==
    IF axis = "Y" \/ axis = "Z"
    THEN [ok |-> TRUE, layer |-> [rootLayer EXCEPT !.upAxis = axis]]
    ELSE [ok |-> FALSE, layer |-> rootLayer]

resolvedUpAxis(upAxis) ==
    IF upAxis = "z" THEN "Z"
    ELSE IF upAxis = "y" THEN "Y"
    ELSE upAxis

uncheckedConfigureStage(rootLayer, defaultPrimName, upAxis, linearUnits, authoringMetadata) ==
    LET metered == [rootLayer EXCEPT !.metersPerUnit = linearUnits, !.dirty = TRUE]
        oriented == UsdGeomSetStageUpAxis(metered, resolvedUpAxis(upAxis))
        defined ==
            IF defaultPrimName \notin oriented.layer.primSpecs
            THEN [oriented.layer EXCEPT !.primSpecs = @ \cup {defaultPrimName}]
            ELSE oriented.layer
        defaulted == [defined EXCEPT !.defaultPrim = defaultPrimName]
    IN IF ~oriented.ok THEN [ok |-> FALSE, layer |-> oriented.layer]
       ELSE [ok |-> TRUE,
             layer |-> IF authoringMetadata # NoMetadata
                       THEN setLayerAuthoringMetadata(defaulted, authoringMetadata)
                       ELSE defaulted]

StageOutcome(layers, exported, result, warning) ==
    [registry |-> layers, files |-> exported, ret |-> result, diag |-> warning]

NoStage(warning) == StageOutcome(registry, files, NullStage, warning)

\* mutant: the stage is made with UsdStage::CreateNew before the stage metrics
\* are validated, so the new layer is loaded under the identifier
createStageCreatesNew(identifier, defaultPrimName, upAxis, linearUnits, authoringMetadata, io) ==
    IF identifier = NoIdentifier \/ ~IsSupportedFile(identifier)
    THEN NoStage("invalid identifier")
    ELSE IF ~IsValidIdentifier(defaultPrimName)
    THEN NoStage("invalid default prim name")
    ELSE IF ~validateStageMetrics(upAxis, linearUnits).ok
    THEN StageOutcome([registry EXCEPT ![identifier] = <<EmptyLayer>>], files, NullStage,
                      validateStageMetrics(upAxis, linearUnits).reason)
    ELSE LET configured == uncheckedConfigureStage(EmptyLayer, defaultPrimName, upAxis,
                                                   linearUnits, authoringMetadata)
             exported == [files EXCEPT ![identifier] = <<Saved(configured.layer)>>]
             opened == [registry EXCEPT ![identifier] = exported[identifier]]
         IN IF io = "ExportFails" THEN NoStage("")
            ELSE StageOutcome(opened, exported, identifier, "")

createStage(identifier, defaultPrimName, upAxis, linearUnits, authoringMetadata, io) ==
    IF identifier = NoIdentifier \/ ~IsSupportedFile(identifier)
    THEN NoStage("invalid identifier")
    ELSE IF ~IsValidIdentifier(defaultPrimName)
    THEN NoStage("invalid default prim name")
    ELSE IF ~validateStageMetrics(upAxis, linearUnits).ok
    THEN NoStage(validateStageMetrics(upAxis, linearUnits).reason)
    ELSE LET configured == uncheckedConfigureStage(EmptyLayer, defaultPrimName, upAxis,
                                                   linearUnits, authoringMetadata)
             exported == [files EXCEPT ![identifier] = <<Saved(configured.layer)>>]
             opened == [registry EXCEPT ![identifier] = exported[identifier]]
         IN IF ~configured.ok THEN NoStage("")
            ELSE IF io = "ExportFails" THEN NoStage("")
            ELSE IF IsLoaded(registry, identifier)
            THEN IF io = "ReloadFails"
                 THEN StageOutcome(registry, exported, NullStage, "")
                 ELSE StageOutcome(opened, exported, identifier, "")
            ELSE StageOutcome(opened, exported, identifier, "")

\* the stage is the one whose root layer is loaded under the identifier
configureStage(identifier, defaultPrimName, upAxis, linearUnits, authoringMetadata) ==
    IF ~IsValidIdentifier(defaultPrimName)
    THEN StageOutcome(registry, files, FALSE, "invalid default prim name")
    ELSE IF ~validateStageMetrics(upAxis, linearUnits).ok
    THEN StageOutcome(registry, files, FALSE, validateStageMetrics(upAxis, linearUnits).reason)
    ELSE LET configured == uncheckedConfigureStage(LayerOf(registry, identifier), defaultPrimName,
                                                   upAxis, linearUnits, authoringMetadata)
         IN StageOutcome([registry EXCEPT ![identifier] = <<configured.layer>>], files,
                         configured.ok, "")

StageReturns(op, arguments, out) ==
    /\ instance = "none"
    /\ registry' = out.registry
    /\ files' = out.files
    /\ ret' = out.ret
    /\ diag' = out.diag
    /\ call' = op
    /\ args' = arguments
    /\ UNCHANGED <<m_primNameCache, m_propertyNameCache, m_cache, localCache, stage, layer, instance, joint>>

StageArgs(identifier, defaultPrimName, upAxis, linearUnits) ==
    [identifier |-> identifier, defaultPrimName |-> defaultPrimName, upAxis |-> upAxis,
     linearUnits |-> linearUnits]

CreateStage(identifier, defaultPrimName, upAxis, linearUnits, authoringMetadata, io) ==
    /\ identifier \in Identifiers
    /\ StageReturns("createStage", StageArgs(identifier, defaultPrimName, upAxis, linearUnits),
                    createStage(identifier, defaultPrimName, upAxis, linearUnits,
                                authoringMetadata, io))

ConfigureStage(identifier, defaultPrimName, upAxis, linearUnits, authoringMetadata) ==
    /\ IsLoaded(registry, identifier)
    /\ StageReturns("configureStage", StageArgs(identifier, defaultPrimName, upAxis, linearUnits),
                    configureStage(identifier, defaultPrimName, upAxis, linearUnits,
                                   authoringMetadata))

\* the program drops its last stage over the layer: the registry forgets it
ReleaseStage(identifier) ==
    /\ IsLoaded(registry, identifier)
    /\ StageReturns("release", StageArgs(identifier, EmptyString, "", 0),
                    StageOutcome([registry EXCEPT ![identifier] = NoLayer], files, NullStage, ""))

InitStageAlgo ==
    /\ m_primNameCache = EmptyMap
    /\ m_propertyNameCache = EmptyMap
    /\ m_cache = EmptyMap
    /\ localCache = ValidNameCache
    /\ InitStage
    /\ instance = "none"
    /\ args = NoArgs
    /\ call = "none"
    /\ ret = <<>>
    /\ diag = FALSE
    /\ registry = EmptyRegistry
    /\ files = EmptyRegistry
    /\ joint = NoJoint

NextStageAlgo ==
    \/ \E identifier \in Identifiers, defaultPrimName \in DefaultPrimNames, upAxis \in UpAxes,
          linearUnits \in LinearUnits, io \in FileOutcomes :
         CreateStage(identifier, defaultPrimName, upAxis, linearUnits, "usdex", io)
    \/ \E identifier \in Identifiers, defaultPrimName \in DefaultPrimNames, upAxis \in UpAxes,
          linearUnits \in LinearUnits, authoringMetadata \in {NoMetadata, "host"} :
         ConfigureStage(identifier, defaultPrimName, upAxis, linearUnits, authoringMetadata)
    \/ \E identifier \in Identifiers : ReleaseStage(identifier)

SpecStageAlgo == InitStageAlgo /\ [][NextStageAlgo]_vars

---------------------------------------------------------------------------
(* Saving a stage (StageAlgo.cpp, saveStage) *)

\* the layers the stage uses: its root layer, a sublayer, its session layer
SubUsda == <<"sub", "usda">>
AnonSession == <<"anon", "session">>
UsedLayers == {TestUsda, SubUsda, AnonSession}
NoComment == "nullopt"

\* SdfLayer::IsAnonymous: the identifier has the prefix of anonymous layers
IsAnonymous(identifier) == Len(identifier) > 0 /\ identifier[1] = "anon"

UsdUtilsGetDirtyLayers(layers) ==
    {identifier \in DOMAIN layers :
        IsLoaded(layers, identifier) /\ LayerOf(layers, identifier).dirty}

\* mutant: the "creator" key of a dirty layer is written whether or not the
\* layer has one
saveStageOverwrites(authoringMetadata, comment) ==
    LET dirtyLayers == UsdUtilsGetDirtyLayers(registry)
        annotated == [identifier \in DOMAIN registry |->
            IF /\ authoringMetadata # NoMetadata
               /\ identifier \in dirtyLayers
               /\ ~IsAnonymous(identifier)
            THEN <<setLayerAuthoringMetadata(LayerOf(registry, identifier), authoringMetadata)>>
            ELSE registry[identifier]]
        saved == [identifier \in DOMAIN registry |->
            IF identifier \in dirtyLayers /\ ~IsAnonymous(identifier)
            THEN <<Saved(LayerOf(annotated, identifier))>>
            ELSE annotated[identifier]]
    IN StageOutcome(saved,
                    [identifier \in DOMAIN files |->
                        IF identifier \in dirtyLayers /\ ~IsAnonymous(identifier)
                        THEN saved[identifier] ELSE files[identifier]],
                    <<>>, "")

saveStage(authoringMetadata, comment) ==
    LET dirtyLayers == UsdUtilsGetDirtyLayers(registry)
        annotated == [identifier \in DOMAIN registry |->
            IF /\ authoringMetadata # NoMetadata
               /\ identifier \in dirtyLayers
               /\ ~IsAnonymous(identifier)
               /\ ~hasLayerAuthoringMetadata(LayerOf(registry, identifier))
            THEN <<setLayerAuthoringMetadata(LayerOf(registry, identifier), authoringMetadata)>>
            ELSE registry[identifier]]
        commented == [identifier \in DOMAIN registry |->
            IF /\ comment # NoComment
               /\ identifier \in dirtyLayers
               /\ ~IsAnonymous(identifier)
            THEN <<[LayerOf(annotated, identifier) EXCEPT !.comment = comment]>>
            ELSE annotated[identifier]]
        \* stage->Save(): every dirty layer that is not anonymous is written
        saved == [identifier \in DOMAIN registry |->
            IF identifier \in dirtyLayers /\ ~IsAnonymous(identifier)
            THEN <<Saved(LayerOf(commented, identifier))>>
            ELSE commented[identifier]]
    IN StageOutcome(saved,
                    [identifier \in DOMAIN files |->
                        IF identifier \in dirtyLayers /\ ~IsAnonymous(identifier)
                        THEN saved[identifier] ELSE files[identifier]],
                    <<>>, "")

SaveStage(authoringMetadata, comment) ==
    /\ DOMAIN registry = UsedLayers
    /\ StageReturns("saveStage", [authoringMetadata |-> authoringMetadata, comment |-> comment],
                    saveStage(authoringMetadata, comment))

\* the program authors something on a layer of the stage
EditLayer(identifier) ==
    /\ DOMAIN registry = UsedLayers
    /\ StageReturns("edit", [identifier |-> identifier],
                    StageOutcome([registry EXCEPT ![identifier] =
                                      <<[LayerOf(registry, identifier) EXCEPT !.dirty = TRUE]>>],
                                 files, <<>>, ""))

\* the stage is open: each layer has the "creator" key or not, and unsaved
\* edits or not; the layers that are files were saved or loaded before
InitSaveStage ==
    /\ m_primNameCache = EmptyMap
    /\ m_propertyNameCache = EmptyMap
    /\ m_cache = EmptyMap
    /\ localCache = ValidNameCache
    /\ InitStage
    /\ instance = "none"
    /\ args = NoArgs
    /\ call = "none"
    /\ ret = <<>>
    /\ diag = FALSE
    /\ registry \in [UsedLayers ->
                        {<<[EmptyLayer EXCEPT !.creator = creator, !.dirty = dirty]>> :
                            creator \in {Unauthored, "usdex"}, dirty \in BOOLEAN}]
    /\ files = [identifier \in UsedLayers |->
                   IF IsAnonymous(identifier) THEN NoLayer
                   ELSE <<Saved(LayerOf(registry, identifier))>>]
    /\ joint = NoJoint

NextSaveStage ==
    \/ \E authoringMetadata \in {NoMetadata, "host"}, comment \in {NoComment, "saved"} :
         SaveStage(authoringMetadata, comment)
    \/ \E identifier \in UsedLayers : EditLayer(identifier)

SpecSaveStage == InitSaveStage /\ [][NextSaveStage]_vars

---------------------------------------------------------------------------
(* Physics joints (definePhysics*Joint, connectPhysicsJoint) *)

NoBody == ""
InvalidSchema == "invalid"

\* the prim at the joint path before a call: none, a Scope, or a joint that
\* targets bodies and was aligned to them
JointPrims ==
    {NoPrim,
     [NoPrim EXCEPT !.type = "Scope"],
     [NoPrim EXCEPT !.type = "PhysicsFixedJoint", !.body0 = {"/A"}, !.body1 = {"/B"},
                    !.localFrame0 = <<"/A", "/B", "World", "p", "">>,
                    !.localFrame1 = <<"/B", "/A", "World", "p", "">>],
     [NoPrim EXCEPT !.type = "PhysicsRevoluteJoint", !.body0 = {"/B"}, !.body1 = {"/A", "/S"},
                    !.localFrame0 = <<"/B", "/A", "Body0", "p", "+X">>,
                    !.localFrame1 = <<"/A", "/B", "Body0", "p", "+X">>,
                    !.axis = "X", !.limits = {"lower"}]}

\* the arguments of one call; the bodies are an invalid prim, two Xforms and a
\* prim that is not Xformable, the axis is (1, 0, 0) or (0, -1, 0), and the
\* edit of either body relationship can fail
JointArgs ==
    [func : {"definePhysicsJoint"},
     type : {"PhysicsFixedJoint", "PhysicsRevoluteJoint", "PhysicsPrismaticJoint",
             "PhysicsSphericalJoint"},
     stage : BOOLEAN, path : {"/A/F", "A/F"},
     body0 : {NoBody, "/A", "/S"}, body1 : {NoBody, "/B", "/S"},
     frame : [space : {"Body0", "Body1", "World"}, pose : {"q"}],
     axis : {"+X", "-Y"}, limits : {{}, {"lower", "upper"}},
     io : {"ok", "body0Fails", "body1Fails"}]
    \cup [func : {"connectPhysicsJoint"}, type : {""}, stage : {TRUE}, path : {"/A/F"},
          body0 : {NoBody, "/A", "/S"}, body1 : {NoBody, "/B", "/S"},
          frame : [space : {"Body0", "Body1", "World"}, pose : {"p", "q"}],
          axis : {"+X", "-Y"}, limits : {{}},
          io : {"ok", "body0Fails", "body1Fails"}]

validatePhysicsJointArguments(location, body0, body1, frame) ==
    IF ~isEditablePrimLocationPath(location).ok
    THEN [ok |-> FALSE, reason |-> "An invalid location"]
    ELSE IF body0 = NoBody /\ body1 = NoBody
    THEN [ok |-> FALSE, reason |-> "Body0 or Body1 are not specified. One of these must exist."]
    ELSE IF body0 # NoBody /\ body0 \notin {"/A", "/B"}
    THEN [ok |-> FALSE, reason |-> "Body0 is not a UsdGeomXformable"]
    ELSE IF body1 # NoBody /\ body1 \notin {"/A", "/B"}
    THEN [ok |-> FALSE, reason |-> "Body1 is not a UsdGeomXformable"]
    ELSE IF body0 = NoBody /\ frame.space = "Body0"
    THEN [ok |-> FALSE, reason |-> "Body0 is specified in the JointFrame Space, but Body0 does not exist."]
    ELSE IF body1 = NoBody /\ frame.space = "Body1"
    THEN [ok |-> FALSE, reason |-> "Body1 is specified in the JointFrame Space, but Body1 does not exist."]
    ELSE [ok |-> TRUE, reason |-> ""]

\* the axis attribute of the joints that have one, and the local position and
\* rotation of each valid body, kept as the arguments computeLocalTransform
\* and getAxisAlignment compute them from
setPhysicsJoint(prim, body0, body1, frame, axis) ==
    [prim EXCEPT
        !.axis = IF axis # "" /\ prim.type \in {"PhysicsRevoluteJoint", "PhysicsPrismaticJoint",
                                                "PhysicsSphericalJoint"}
                 THEN (IF axis = "-Y" THEN "Y" ELSE "X") ELSE @,
        !.localFrame0 = IF body0 # NoBody THEN <<body0, body1, frame.space, frame.pose, axis>>
                        ELSE @,
        !.localFrame1 = IF body1 # NoBody THEN <<body1, body0, frame.space, frame.pose, axis>>
                        ELSE @]

JointOutcome(prim, result, error) == [prim |-> prim, ret |-> result, diag |-> error]

\* mutant: the prim is defined before the arguments are validated
definePhysicsJointDefinesFirst(a) ==
    LET location == [stage |-> a.stage, path |-> a.path, parent |-> joint.parent,
                     exists |-> joint.prim # NoPrim]
        defined == [joint.prim EXCEPT !.type = a.type]
        set0 == IF a.body0 # NoBody THEN [defined EXCEPT !.body0 = {a.body0}] ELSE defined
        set1 == IF a.body1 # NoBody THEN [set0 EXCEPT !.body1 = {a.body1}] ELSE set0
    IN IF joint.parent # "prim" \/ ~a.stage THEN JointOutcome(joint.prim, InvalidSchema, TRUE)
       ELSE IF ~validatePhysicsJointArguments(location, a.body0, a.body1, a.frame).ok
       THEN JointOutcome(defined, InvalidSchema, TRUE)
       ELSE JointOutcome(setPhysicsJoint(set1, a.body0, a.body1, a.frame, a.axis), a.type, FALSE)

\* definePhysicsFixedJoint, definePhysicsRevoluteJoint, definePhysicsPrismaticJoint
\* and definePhysicsSphericalJoint at a path of the stage
definePhysicsJoint(a) ==
    LET location == [stage |-> a.stage, path |-> a.path, parent |-> joint.parent,
                     exists |-> joint.prim # NoPrim]
        defined == [joint.prim EXCEPT !.type = a.type]
        set0 == IF a.body0 # NoBody THEN [defined EXCEPT !.body0 = {a.body0}] ELSE defined
        set1 == IF a.body1 # NoBody THEN [set0 EXCEPT !.body1 = {a.body1}] ELSE set0
        aligned == setPhysicsJoint(set1, a.body0, a.body1, a.frame,
                                   IF a.type = "PhysicsFixedJoint" THEN "" ELSE a.axis)
    IN IF ~validatePhysicsJointArguments(location, a.body0, a.body1, a.frame).ok
       THEN JointOutcome(joint.prim, InvalidSchema, TRUE)
       \* UsdPhysics*Joint::Define authors nothing below an instance
       ELSE IF joint.parent # "prim" THEN JointOutcome(joint.prim, InvalidSchema, TRUE)
       ELSE IF a.body0 # NoBody /\ a.io = "body0Fails"
       THEN JointOutcome(defined, InvalidSchema, TRUE)
       ELSE IF a.body1 # NoBody /\ a.io = "body1Fails"
       THEN JointOutcome(set0, InvalidSchema, TRUE)
       ELSE JointOutcome(IF a.type = "PhysicsFixedJoint" THEN aligned
                         ELSE [aligned EXCEPT !.limits = @ \cup a.limits],
                         a.type, FALSE)

\* mutant: the relationship of an invalid body is left as it was
connectPhysicsJointKeepsTargets(a) ==
    LET set0 == IF a.body0 # NoBody THEN [joint.prim EXCEPT !.body0 = {a.body0}] ELSE joint.prim
        set1 == IF a.body1 # NoBody THEN [set0 EXCEPT !.body1 = {a.body1}] ELSE set0
    IN IF \/ a.body0 = NoBody /\ a.frame.space = "Body0"
          \/ a.body1 = NoBody /\ a.frame.space = "Body1"
          \/ a.body0 = NoBody /\ a.body1 = NoBody
       THEN JointOutcome(joint.prim, <<>>, TRUE)
       ELSE JointOutcome(setPhysicsJoint(set1, a.body0, a.body1, a.frame, a.axis), <<>>, FALSE)

connectPhysicsJoint(a) ==
    LET set0 == [joint.prim EXCEPT !.body0 = IF a.body0 # NoBody THEN {a.body0} ELSE {}]
        set1 == [set0 EXCEPT !.body1 = IF a.body1 # NoBody THEN {a.body1} ELSE {}]
    IN IF a.body0 = NoBody /\ a.frame.space = "Body0"
       THEN JointOutcome(joint.prim, <<>>, TRUE)
       ELSE IF a.body1 = NoBody /\ a.frame.space = "Body1"
       THEN JointOutcome(joint.prim, <<>>, TRUE)
       ELSE IF a.body0 = NoBody /\ a.body1 = NoBody
       THEN JointOutcome(joint.prim, <<>>, TRUE)
       ELSE IF a.io = "body0Fails" THEN JointOutcome(joint.prim, <<>>, TRUE)
       ELSE IF a.io = "body1Fails" THEN JointOutcome(set0, <<>>, TRUE)
       ELSE JointOutcome(setPhysicsJoint(set1, a.body0, a.body1, a.frame, a.axis), <<>>, FALSE)

JointReturns(op, out) ==
    /\ call = "none"
    /\ args.func = op
    /\ joint' = [joint EXCEPT !.prim = out.prim]
    /\ ret' = out.ret
    /\ diag' = out.diag
    /\ call' = op
    /\ UNCHANGED <<m_primNameCache, m_propertyNameCache, m_cache, localCache, stage, layer, instance, args, registry, files>>

DefinePhysicsJoint ==
    /\ instance = "none"
    /\ JointReturns("definePhysicsJoint", definePhysicsJoint(args))

\* the joint is a valid UsdPhysicsJoint
ConnectPhysicsJoint ==
    /\ joint.prim.type \notin {"none", "Scope"}
    /\ JointReturns("connectPhysicsJoint", connectPhysicsJoint(args))

\* the parent of the joint path is a plain prim, an instance or an instance
\* proxy; below an instance there is no joint, and the prim is an instance proxy
InitJoint ==
    /\ m_primNameCache = EmptyMap
    /\ m_propertyNameCache = EmptyMap
    /\ m_cache = EmptyMap
    /\ localCache = ValidNameCache
    /\ InitStage
    /\ instance = "none"
    /\ args \in JointArgs
    /\ call = "none"
    /\ ret = <<>>
    /\ diag = FALSE
    /\ registry = EmptyRegistry
    /\ files = EmptyRegistry
    /\ joint \in [parent : {"prim"}, prim : JointPrims]
                 \cup [parent : {"instance", "instanceProxy"},
                       prim : {NoPrim, [NoPrim EXCEPT !.type = "Scope"]}]

NextJoint ==
    \/ DefinePhysicsJoint
    \/ ConnectPhysicsJoint

SpecJoint == InitJoint /\ [][NextJoint]_vars

---------------------------------------------------------------------------
(* Vocabulary of the properties *)

PrimGetOps == {"getPrimName", "getPrimNames"}
PropertyGetOps == {"getPropertyName", "getPropertyNames"}
SingleNameOps == {"getPrimName", "getPropertyName", "ValidChildNameCache::getValidChildName"}

\* the tokens a get returned
Returned(op, value) ==
    IF op \in SingleNameOps THEN (IF value = <<>> THEN {} ELSE {value}) ELSE ToSet(value)

Used(map, key) == ToSet(map[key].usedNames)

\* the keys whose entry a step created or changed
Touched(old, new) == {k \in DOMAIN new : k \notin DOMAIN old \/ new[k] # old[k]}

IsPrefix(s, t) == Len(s) <= Len(t) /\ SubSeq(t, 1, Len(s)) = s

ValidFor(parent, allowPseudoRoot) == isValidParent(parent, allowPseudoRoot).ok

---------------------------------------------------------------------------
(* Properties of the free functions, under SpecFn *)

\* the free functions that run the engine
EngineCalls == {"getValidPrimNames", "getValidPropertyNames", "getValidChildNames"}

\* the reservation set the engine starts from
ReservedAtStart ==
    IF args.func = "getValidChildNames" THEN stage.children[args.parent.path]
    ELSE args.reservedNames

\* C1: the list a call of the uniquification engine returns holds no token twice
\* and no token that was reserved when the call started
C1_UniqueAndUnreserved ==
    call \in EngineCalls =>
        /\ NoDuplicates(ret)
        /\ \A i \in 1..Len(ret) : ~InSeq(ret[i], ReservedAtStart)

\* F is asked for twice while F_1 is reserved: F and F_2 are returned
C1_Witness ==
    /\ call = "getValidPrimNames"
    /\ args.names = <<F, F>>
    /\ args.reservedNames = <<F_1>>
    /\ ret = <<F, F_2>>

\* C4 as claimed: with nothing reserved, ["F_1", "F"] gives ["F_1", "F_2"]
C4_Claimed ==
    (call = "getValidPrimNames" /\ args.names = <<F_1, F>> /\ args.reservedNames = <<>>)
        => ret = <<F_1, F_2>>

\* C4 as the code has it: with nothing reserved, ["F_1", "F"] gives ["F_1", "F"],
\* both names being free; the guard against claiming a supplied name as a
\* suffixed one acts on ["F", "F", "F_1"], which gives ["F", "F_2", "F_1"]
C4_BothVerbatim ==
    /\ (call = "getValidPrimNames" /\ args.names = <<F_1, F>> /\ args.reservedNames = <<>>)
          => ret = <<F_1, F>>
    /\ (call = "getValidPrimNames" /\ args.names = <<F, F, F_1>> /\ args.reservedNames = <<>>)
          => ret = <<F, F_2, F_1>>

C4_Witness ==
    /\ call = "getValidPrimNames"
    /\ args.names = <<F_1, F>>
    /\ args.reservedNames = <<>>
    /\ ret = <<F_1, F>>
    /\ localCache.startIndices = EmptyMap

---------------------------------------------------------------------------
(* Properties of the caches, under Spec *)

\* the step of a cache map within one scope lifetime: what a get returned was
\* not reserved before and is reserved after, and nothing reserved is dropped
\* unless a clear operation removed the entry
ScopeStep(old, new, gets, clears) ==
    /\ call' \in gets =>
          /\ NoDuplicates(IF call' \in SingleNameOps THEN <<ret'>> ELSE ret')
          /\ Returned(call', ret') # {} => Touched(old, new) # {}
          /\ \A k \in Touched(old, new) :
                /\ Returned(call', ret') \subseteq Used(new, k)
                /\ k \in DOMAIN old => Returned(call', ret') \cap Used(old, k) = {}
    /\ \A k \in DOMAIN old :
          IF k \in DOMAIN new THEN Used(old, k) \subseteq Used(new, k)
          ELSE call' \in clears

\* C2: within one scope, between two clears of it, no token is returned twice:
\* a returned token was not reserved, is reserved from then on, and updates and
\* later gets drop no reserved token
C2_NeverReturnedTwice ==
    [][/\ ScopeStep(m_primNameCache, m_primNameCache', PrimGetOps,
                    {"clearPrimNames", "clear"})
       /\ ScopeStep(m_propertyNameCache, m_propertyNameCache', PropertyGetOps,
                    {"clearPropertyNames", "clear"})]_vars

\* a second get of F in a scope that was updated in between returned F_1
C2_Witness ==
    /\ call = "getPrimName"
    /\ ret = F_1
    /\ "/A" \in DOMAIN m_primNameCache
    /\ m_primNameCache["/A"].usedNames = <<F, F_1>>
    /\ m_primNameCache["/A"].startIndices = (F :> 1)

\* C3 as claimed: a name returned for a UsdPrim parent is never the name of a
\* child that exists under that prim
C3_NeverAnExistingChild ==
    [][/\ call' = "getPrimNames" =>
             \A parent \in ValidPrims : \A names \in CacheNameLists :
                GetPrimNames(parent, names)
                   => \A i \in 1..Len(ret') : ~InSeq(ret'[i], stage.children[parent.path])
       /\ call' = "getPrimName" =>
             \A parent \in ValidPrims : \A name \in CacheRawNames :
                GetPrimName(parent, name) => ~InSeq(ret', stage.children[parent.path])]_vars

\* the names reserveChildNames / reserveChildPropertyNames find for a parent
ExistingChildNames(parent) ==
    IF parent.form = "UsdPrim" THEN stage.children[parent.path]
    ELSE IF parent.form = "SdfPrimSpec" THEN layer.children[parent.path]
    ELSE <<>>

ExistingPropertyNames(parent) ==
    IF parent.form = "UsdPrim" THEN stage.properties[parent.path]
    ELSE IF parent.form = "SdfPrimSpec" THEN layer.properties[parent.path]
    ELSE <<>>

\* the parents usable as a key of the prim names, and of the property names
UsableForPrims == {parent \in Parents : ValidFor(parent, TRUE)}
UsableForProperties == {parent \in Parents : ValidFor(parent, FALSE)}

\* C5 as claimed: a get with no names, for a valid parent, returns an empty list
\* and leaves the cache map as it was, creating no entry
C5_NoEntryCreated ==
    /\ \A parent \in UsableForPrims :
          /\ getPrimNames(parent, <<>>).ret = <<>>
          /\ getPrimNames(parent, <<>>).prim = m_primNameCache
    /\ \A parent \in UsableForProperties :
          /\ getPropertyNames(parent, <<>>).ret = <<>>
          /\ getPropertyNames(parent, <<>>).property = m_propertyNameCache

\* every entry of old is in new as it was
Kept(old, new) == \A k \in DOMAIN old : k \in DOMAIN new /\ new[k] = old[k]

\* a get with no names returned an empty list, kept every entry and left the
\* parent with an entry: a new entry reserves `existing` only
EmptyGet(old, new, value, key, existing) ==
    /\ value = <<>>
    /\ Kept(old, new)
    /\ DOMAIN new = DOMAIN old \cup {key}
    /\ key \notin DOMAIN old => new[key] = [usedNames |-> existing, startIndices |-> EmptyMap]

\* C5 as the code has it: in every state, a get with no names, for a valid
\* parent, returns an empty list without error and changes no existing entry;
\* if the parent had no entry, one is created that reserves the names the
\* parent has and holds no start index
C5_ExistingEntryUnchanged ==
    /\ \A parent \in UsableForPrims :
          LET out == getPrimNames(parent, <<>>)
          IN /\ ~out.diag
             /\ out.property = m_propertyNameCache
             /\ EmptyGet(m_primNameCache, out.prim, out.ret, getCacheKey(parent),
                         ExistingChildNames(parent))
    /\ \A parent \in UsableForProperties :
          LET out == getPropertyNames(parent, <<>>)
          IN /\ ~out.diag
             /\ out.prim = m_primNameCache
             /\ EmptyGet(m_propertyNameCache, out.property, out.ret, getCacheKey(parent),
                         ExistingPropertyNames(parent))

\* a get with no names has returned and the root scope it ran in holds the child
\* names once
C5_Witness ==
    /\ call = "getPrimNames"
    /\ ret = <<>>
    /\ ~diag
    /\ "/" \in DOMAIN m_primNameCache
    /\ m_primNameCache["/"] = [usedNames |-> <<A>>, startIndices |-> EmptyMap]

\* an update kept every entry, appended to its reserved names, kept its start indices
OnlyAdded(old, new) ==
    \A k \in DOMAIN old :
        /\ k \in DOMAIN new
        /\ IsPrefix(old[k].usedNames, new[k].usedNames)
        /\ new[k].startIndices = old[k].startIndices

\* the get of a name whose valid form is reserved, whose start index is fresh
\* and whose first suffixed form is free, returns the first suffixed form
FirstSuffix(entry, name, valid, suffixed, value) ==
    /\ InSeq(valid, entry.usedNames)
    /\ StartIndex(entry, name) = 0
    /\ ~InSeq(suffixed, entry.usedNames)
    => value = suffixed

\* the parents of the operations that have no SdfPath overload, where usable
UsableHandlesForPrims == UsableForPrims \cap HandleParents
UsableHandlesForProperties == UsableForProperties \cap HandleParents

\* C6: in every state, an update only adds to the reservation sets: every token
\* reserved before it is reserved after it, in the same order, and the start
\* indices stay; and a get of a name that is reserved (such as one returned
\* before the update) returns the name suffixed with _1, not the name
C6_UpdateKeepsReservations ==
    /\ \A parent \in UsableHandlesForPrims :
          /\ OnlyAdded(m_primNameCache, updatePrimNames(parent).prim)
          /\ updatePrimNames(parent).property = m_propertyNameCache
          /\ OnlyAdded(m_primNameCache, update(parent).prim)
          /\ OnlyAdded(m_propertyNameCache, update(parent).property)
    /\ \A parent \in UsableHandlesForProperties :
          /\ OnlyAdded(m_propertyNameCache, updatePropertyNames(parent).property)
          /\ updatePropertyNames(parent).prim = m_primNameCache
    /\ \A prim \in ValidPrims : OnlyAdded(m_cache, implUpdate(prim))
    /\ \A parent \in UsableForPrims : \A name \in CacheRawNames :
          getCacheKey(parent) \in DOMAIN m_primNameCache =>
             FirstSuffix(m_primNameCache[getCacheKey(parent)], name, getValidPrimName(name),
                         getValidPrimName(SuffixedName(name, 1)),
                         getPrimNames(parent, <<name>>).ret[1])

\* the scope of /A was updated and still reserves F_1, which no prim is named
C6_Witness ==
    /\ call = "updatePrimNames"
    /\ ~diag
    /\ "/A" \in DOMAIN m_primNameCache
    /\ InSeq(F_1, m_primNameCache["/A"].usedNames)

\* C7: in every state, a clear of the names of a valid parent removes the
\* scope's entry, reserved names and start indices alike; and a get, in a scope
\* without entry, of a valid identifier that no existing child has returns it
\* unchanged and leaves the start indices empty
C7_ClearResets ==
    /\ \A parent \in UsableForPrims :
          /\ getCacheKey(parent) \notin DOMAIN clearPrimNames(parent).prim
          /\ getCacheKey(parent) \notin DOMAIN clear(parent).prim
          /\ getCacheKey(parent) \notin DOMAIN clear(parent).property
    /\ \A parent \in UsableForProperties :
          getCacheKey(parent) \notin DOMAIN clearPropertyNames(parent).property
    /\ \A prim \in ValidPrims : prim.path \notin DOMAIN implClear(prim)
    /\ \A parent \in UsableForPrims : \A name \in CacheRawNames :
          (/\ getCacheKey(parent) \notin DOMAIN m_primNameCache
           /\ IsValidIdentifier(name)
           /\ ~InSeq(name, stage.children[getCacheKey(parent)]))
             => LET out == getPrimNames(parent, <<name>>)
                IN /\ out.ret = <<name>>
                   /\ out.prim[getCacheKey(parent)].startIndices = EmptyMap

\* the prim names of /A were cleared while the root scope stays
C7_Witness ==
    /\ call = "clearPrimNames"
    /\ ~diag
    /\ "/A" \notin DOMAIN m_primNameCache
    /\ "/" \in DOMAIN m_primNameCache

\* is `name` reserved when the engine runs in the scope of `key`
ReservedIn(map, key, existing, name) ==
    IF key \in DOMAIN map THEN InSeq(name, map[key].usedNames) ELSE InSeq(name, existing)

\* C8: the prim names and the property names of a parent are separate scopes:
\* in every state, a get in one leaves the other's map unchanged, and a valid
\* identifier that is free in a scope is returned unchanged by a get in that
\* scope, whatever the other scope reserves
C8_ScopeIsolation ==
    \A parent \in UsableForProperties : \A name \in CacheRawNames :
        /\ getPrimName(parent, name).property = m_propertyNameCache
        /\ getPropertyName(parent, name).prim = m_primNameCache
        /\ (/\ IsValidIdentifier(name)
            /\ ~ReservedIn(m_primNameCache, getCacheKey(parent), ExistingChildNames(parent), name))
              => getPrimName(parent, name).ret = name
        /\ (/\ IsValidIdentifier(name)
            /\ ~ReservedIn(m_propertyNameCache, getCacheKey(parent), ExistingPropertyNames(parent), name))
              => getPropertyName(parent, name).ret = name

\* the property name F was returned unchanged under /A while the prim names of
\* /A reserve F
C8_Witness ==
    /\ call = "getPropertyName"
    /\ ret = F
    /\ "/A" \in DOMAIN m_primNameCache
    /\ "/A" \in DOMAIN m_propertyNameCache
    /\ InSeq(F, m_primNameCache["/A"].usedNames)
    /\ m_propertyNameCache["/A"].usedNames = <<F>>

\* a parent that is no stable cache key: a relative path, a path that is no prim
\* path, a path with a variant selection, an invalid prim, a null or dormant
\* prim spec, or the pseudo-root where it is not allowed
UnusableParent(parent, allowPseudoRoot) ==
    \/ parent.form = "SdfPath" /\ parent.path \in {"A", "/A.p", "/A{v=s}", "/A{v=s}B"}
    \/ parent.form = "UsdPrim" /\ parent.status = "invalid"
    \/ parent.form = "SdfPrimSpec" /\ parent.status \in {"null", "dormant"}
    \/ ~allowPseudoRoot /\ parent.status = "ok" /\ parent.path = AbsoluteRootPath

\* the call returned the failure value, reported an error, changed no map
RejectedUnchanged(out) ==
    /\ out.ret = <<>>
    /\ out.diag
    /\ out.prim = m_primNameCache
    /\ out.property = m_propertyNameCache

\* the parents unusable where the pseudo-root is allowed, and where it is not
UnusableForPrims == {parent \in Parents : UnusableParent(parent, TRUE)}
UnusableForProperties == {parent \in Parents : UnusableParent(parent, FALSE)}

\* C9: in every state, a NameCache operation called with a parent that is no
\* stable cache key returns the empty token or list, reports an error and
\* leaves both cache maps as they were
C9_InvalidParentRejected ==
    /\ \A parent \in UnusableForPrims :
          /\ \A name \in CacheRawNames : RejectedUnchanged(getPrimName(parent, name))
          /\ \A names \in CacheNameLists : RejectedUnchanged(getPrimNames(parent, names))
          /\ RejectedUnchanged(clearPrimNames(parent))
          /\ RejectedUnchanged(clear(parent))
          /\ parent \in HandleParents =>
                /\ RejectedUnchanged(updatePrimNames(parent))
                /\ RejectedUnchanged(update(parent))
    /\ \A parent \in UnusableForProperties :
          /\ \A name \in CacheRawNames : RejectedUnchanged(getPropertyName(parent, name))
          /\ \A names \in CacheNameLists : RejectedUnchanged(getPropertyNames(parent, names))
          /\ RejectedUnchanged(clearPropertyNames(parent))
          /\ parent \in HandleParents => RejectedUnchanged(updatePropertyNames(parent))

\* a property get was rejected in a cache that holds entries
C9_Witness ==
    /\ call = "getPropertyNames"
    /\ diag
    /\ ret = <<>>
    /\ "/A" \in DOMAIN m_primNameCache
    /\ "/A" \in DOMAIN m_propertyNameCache

\* C10 as claimed: the property name cache never has an entry for the pseudo-root
C10_NoPseudoRootPropertyScope == AbsoluteRootPath \notin DOMAIN m_propertyNameCache

\* C11 as claimed: the reserved names of every scope hold each token at most once
C11_ReservationSetUnique ==
    /\ \A k \in DOMAIN m_primNameCache : NoDuplicates(m_primNameCache[k].usedNames)
    /\ \A k \in DOMAIN m_propertyNameCache : NoDuplicates(m_propertyNameCache[k].usedNames)
    /\ \A k \in DOMAIN m_cache : NoDuplicates(m_cache[k].usedNames)

\* the start indices of the scopes of a map over one step: every stored index is
\* still stored and has not decreased, unless a clear operation removed the entry
IndicesStep(old, new, clears) ==
    \A k \in DOMAIN old :
        IF k \in DOMAIN new
        THEN \A n \in DOMAIN old[k].startIndices :
                /\ n \in DOMAIN new[k].startIndices
                /\ new[k].startIndices[n] >= old[k].startIndices[n]
        ELSE call' \in clears

---------------------------------------------------------------------------
(* Shape of the engine's results, under SpecFn *)

\* the sanitizer the called free function hands to the engine
Sanitize(name) ==
    getValidNameFunc(IF args.func = "getValidPropertyNames" THEN "getValidPropertyName"
                     ELSE "getValidPrimName", name)

\* the suffixes _1 .. _9, written out: fewer than ten names are reserved or supplied
OneDigitSuffixes == {<<"_", d>> : d \in {"1", "2", "3", "4", "5", "6", "7", "8", "9"}}
SuffixOf == [k \in 1..9 |-> <<"_", <<"1", "2", "3", "4", "5", "6", "7", "8", "9">>[k]>>]

\* C13: a call of the engine with n preferred names returns n tokens, and the
\* i-th token is the sanitized i-th name or the sanitized i-th name suffixed
\* with _k for some k >= 1 (k <= 9 within the bounds)
C13_OrderAndShape ==
    call \in EngineCalls =>
        /\ Len(ret) = Len(args.names)
        /\ \A i \in 1..Len(ret) :
              \/ ret[i] = Sanitize(args.names[i])
              \/ \E suffix \in OneDigitSuffixes : ret[i] = Sanitize(args.names[i] \o suffix)

\* F:1 sanitizes to the reserved F_1 and is returned as the sanitized F:1_1,
\* before F, which is returned as it is
C13_Witness ==
    /\ call = "getValidPrimNames"
    /\ args.names = <<FC1, F>>
    /\ args.reservedNames = <<F_1>>
    /\ ret = <<F_1 \o <<"_", "1">>, F>>

\* C14: with nothing reserved, n copies of a valid identifier N are returned as
\* N, N_1, ..., N_(n-1) in that order
C14_CollisionSuffixing ==
    (/\ call \in {"getValidPrimNames", "getValidPropertyNames"}
     /\ args.reservedNames = <<>>
     /\ Len(args.names) > 0
     /\ Sanitize(args.names[1]) = args.names[1]
     /\ \A i \in 1..Len(args.names) : args.names[i] = args.names[1])
        => /\ Len(ret) = Len(args.names)
           /\ \A i \in 1..Len(ret) :
                 ret[i] = IF i = 1 THEN args.names[1] ELSE args.names[1] \o SuffixOf[i - 1]

\* three copies of F were returned as F, F_1, F_2
C14_Witness ==
    /\ call = "getValidPrimNames"
    /\ args.names = <<F, F, F>>
    /\ args.reservedNames = <<>>
    /\ ret = <<F, F_1, F_2>>

\* C15: a preferred name that is a valid identifier, was not reserved when the
\* call started and is not the sanitized form of an earlier preferred name of
\* the list is returned unchanged
C15_VerbatimPreference ==
    call \in EngineCalls =>
        \A i \in 1..Len(args.names) :
            (/\ Sanitize(args.names[i]) = args.names[i]
             /\ ~InSeq(args.names[i], ReservedAtStart)
             /\ \A j \in 1..(i - 1) : Sanitize(args.names[j]) # args.names[i])
               => (Len(ret) = Len(args.names) /\ ret[i] = args.names[i])

\* F_1 was returned unchanged after the second F, which F is reserved for, was
\* given F_2 rather than the F_1 supplied later
C15_Witness ==
    /\ call = "getValidPrimNames"
    /\ args.names = <<F, F, F_1>>
    /\ args.reservedNames = <<F>>
    /\ ret[3] = F_1
    /\ ret[1] # F

---------------------------------------------------------------------------
(* The validity check and the sanitizers on their own, under SpecFn *)

\* what keeps a path from being a cache key, read off the path
PathViolation(path, allowPseudoRoot) ==
    IF path = "/" THEN (IF allowPseudoRoot THEN "none" ELSE "pseudo-root")
    ELSE IF path \in {"/A.p", "/A{v=s}"} THEN "no prim path"
    ELSE IF path = "/A{v=s}B" THEN "variant selection"
    ELSE IF path = "A" THEN "relative"
    ELSE "none"

\* C16: isValidParent of a path returns true exactly for an absolute prim path
\* without variant selection and for the pseudo-root where it is allowed;
\* otherwise it returns false with a reason that is not empty and that differs
\* from the reason of every other kind of violation
C16_PathKeyValidity ==
    (call = "isValidParent" /\ args.parent.form = "SdfPath") =>
        LET violation == PathViolation(args.parent.path, args.allowPseudoRoot)
        IN /\ ret.ok = (violation = "none")
           /\ ~ret.ok => ret.reason # ""
           /\ ~ret.ok =>
                 \A other \in PathParents : \A allow \in BOOLEAN :
                    PathViolation(other.path, allow) \notin {"none", violation}
                       => isValidParent(other, allow).reason # ret.reason

\* a prim path below a variant selection was refused with a reason
C16_Witness ==
    /\ call = "isValidParent"
    /\ args.parent = [form |-> "SdfPath", status |-> "ok", path |-> "/A{v=s}B"]
    /\ ~ret.ok
    /\ ret.reason # ""

Colons(s) == Cardinality({i \in 1..Len(s) : s[i] = ":"})

\* every segment between two delimiters is a non-empty identifier
SegmentsAreIdentifiers(s) ==
    /\ Len(s) > 0
    /\ s[Len(s)] # ":"
    /\ \A i \in 1..Len(s) :
          IF i = 1 \/ s[IF i = 1 THEN 1 ELSE i - 1] = ":"
          THEN s[i] \in Letters \cup {"_"}
          ELSE s[i] \in Letters \cup DigitSet \cup {"_", ":"}

\* C17: getValidPropertyName returns a name with as many segments between ":"
\* as its input has, each a non-empty valid identifier, for the empty string
\* and for empty segments too
C17_PropertyNameSegments ==
    call = "getValidPropertyName" =>
        /\ Colons(ret) = Colons(args.names[1])
        /\ SegmentsAreIdentifiers(ret)

\* the empty first segment and the segment 1 of ":1" both became "_"
C17_Witness ==
    /\ call = "getValidPropertyName"
    /\ args.names[1] = <<":", "1">>
    /\ ret = <<"_", ":", "_">>

CreateStageRejects(identifier, defaultPrimName, upAxis, linearUnits) ==
    \/ identifier = NoIdentifier
    \/ identifier = TestFoo
    \/ ~IsValidIdentifier(defaultPrimName)
    \/ upAxis \notin {"Y", "Z", "y", "z"}
    \/ linearUnits <= 0

\* C19 as claimed: after createStage was handed arguments it rejects, it has
\* returned a null stage, no layer is loaded under the identifier and no file
\* of that identifier has been exported
C19_NothingUnderIdentifier ==
    (/\ call = "createStage"
     /\ CreateStageRejects(args.identifier, args.defaultPrimName, args.upAxis, args.linearUnits))
    => /\ ret = NullStage
       /\ ~IsLoaded(registry, args.identifier)
       /\ ~IsLoaded(files, args.identifier)

\* C19: in every state, createStage on arguments it rejects returns a null
\* stage and leaves the layer registry and the exported files as they were,
\* whatever the file system would have done: a layer is loaded under the
\* identifier afterwards only if one was before the call
C19_FailsAtomically ==
    \A identifier \in Identifiers, defaultPrimName \in DefaultPrimNames, upAxis \in UpAxes,
       linearUnits \in LinearUnits, io \in FileOutcomes :
        CreateStageRejects(identifier, defaultPrimName, upAxis, linearUnits) =>
            LET out == createStage(identifier, defaultPrimName, upAxis, linearUnits, "usdex", io)
            IN /\ out.ret = NullStage
               /\ out.registry = registry
               /\ out.files = files
               /\ IsLoaded(out.registry, identifier) => IsLoaded(registry, identifier)

\* createStage refused the up axis x for test.usda: nothing is loaded or
\* exported under test.usda
C19_Witness ==
    /\ call = "createStage"
    /\ args.identifier = TestUsda
    /\ args.defaultPrimName = F
    /\ args.upAxis = "x"
    /\ args.linearUnits = 100
    /\ ret = NullStage
    /\ diag = "Unsupported up axis value"
    /\ ~IsLoaded(registry, TestUsda)
    /\ ~IsLoaded(files, TestUsda)

\* the UsdGeomTokens token of the same letter
CanonicalUpAxis(upAxis) ==
    CASE upAxis \in {"Y", "y"} -> "Y"
      [] upAxis \in {"Z", "z"} -> "Z"

\* C20: createStage and configureStage with otherwise valid arguments succeed
\* for exactly the up axes Y, Z, y, z, fail for every other token, and after
\* every successful call the up axis of the stage's root layer is the upper
\* case token of the same letter
C20_UpAxisCanonical ==
    \A identifier \in Identifiers, defaultPrimName \in DefaultPrimNames, upAxis \in UpAxes,
       linearUnits \in LinearUnits :
        LET created == createStage(identifier, defaultPrimName, upAxis, linearUnits, "usdex", "ok")
            valid == /\ identifier = TestUsda
                     /\ defaultPrimName = F
                     /\ linearUnits > 0
        IN /\ valid => (created.ret # NullStage <=> upAxis \in {"Y", "Z", "y", "z"})
           /\ \A io \in FileOutcomes :
                 LET out == createStage(identifier, defaultPrimName, upAxis, linearUnits,
                                        "usdex", io)
                 IN out.ret # NullStage =>
                        /\ upAxis \in {"Y", "Z", "y", "z"}
                        /\ LayerOf(out.registry, out.ret).upAxis = CanonicalUpAxis(upAxis)
           /\ IsLoaded(registry, identifier) =>
                 \A authoringMetadata \in {NoMetadata, "host"} :
                     LET out == configureStage(identifier, defaultPrimName, upAxis, linearUnits,
                                               authoringMetadata)
                     IN /\ (defaultPrimName = F /\ linearUnits > 0) =>
                              (out.ret <=> upAxis \in {"Y", "Z", "y", "z"})
                        /\ out.ret =>
                              /\ upAxis \in {"Y", "Z", "y", "z"}
                              /\ LayerOf(out.registry, identifier).upAxis = CanonicalUpAxis(upAxis)
                        /\ ~out.ret => out.registry = registry

\* configureStage was handed the up axis z for a stage that createStage made
\* with the up axis y: its root layer has the up axis Z
C20_Witness ==
    /\ call = "configureStage"
    /\ args.identifier = TestUsda
    /\ args.upAxis = "z"
    /\ ret = TRUE
    /\ LayerOf(registry, TestUsda).upAxis = "Z"
    /\ LayerOf(files, TestUsda).upAxis = "Y"

\* C21: in every state, configureStage on a stage whose root layer has the
\* "creator" key leaves the value of the key as it was, whatever authoring
\* metadata it is handed, and so does createStage on the identifier of a loaded
\* layer that has the key
C21_ExistingCreatorKept ==
    \A identifier \in Identifiers :
        (/\ IsLoaded(registry, identifier)
         /\ hasLayerAuthoringMetadata(LayerOf(registry, identifier))) =>
            \A defaultPrimName \in DefaultPrimNames, upAxis \in UpAxes,
               linearUnits \in LinearUnits :
                /\ \A authoringMetadata \in {NoMetadata, "host"} :
                      LayerOf(configureStage(identifier, defaultPrimName, upAxis, linearUnits,
                                             authoringMetadata).registry, identifier).creator
                          = LayerOf(registry, identifier).creator
                /\ \A io \in FileOutcomes :
                      LayerOf(createStage(identifier, defaultPrimName, upAxis, linearUnits,
                                          "usdex", io).registry, identifier).creator
                          = LayerOf(registry, identifier).creator

C23_NoChildUnderInstance ==
    /\ (/\ call = "isEditablePrimLocation"
        /\ args.parent.valid
        /\ args.parent.kind \in {"instance", "instanceProxy"}
        /\ IsValidIdentifier(args.names[1]))
       => (~ret.ok /\ ret.reason # "")
    /\ (/\ call = "isEditablePrimLocationPath"
        /\ args.parent.stage
        /\ args.parent.parent \in {"instance", "instanceProxy"})
       => ~ret.ok

C27_DefineFailsAtomically ==
    (call = "none" /\ args.func = "definePhysicsJoint") =>
        LET out == definePhysicsJoint(args)
            rejected == \/ ~args.stage
                        \/ args.path # "/A/F"
                        \/ joint.parent \in {"instance", "instanceProxy"}
                        \/ args.body0 = NoBody /\ args.body1 = NoBody
                        \/ args.body0 = "/S"
                        \/ args.body1 = "/S"
                        \/ args.frame.space = "Body0" /\ args.body0 = NoBody
                        \/ args.frame.space = "Body1" /\ args.body1 = NoBody
        IN /\ rejected =>
                 /\ out.ret = InvalidSchema
                 /\ out.prim = joint.prim
                 /\ out.diag
           /\ (~rejected /\ args.io = "ok") =>
                 /\ out.ret = args.type
                 /\ out.prim.type = args.type

\* definePhysicsRevoluteJoint with a body0 that is not Xformable returned an
\* invalid schema and there is no prim at the path
C27_Witness ==
    /\ call = "definePhysicsJoint"
    /\ args.type = "PhysicsRevoluteJoint"
    /\ args.stage
    /\ args.path = "/A/F"
    /\ args.body0 = "/S"
    /\ args.body1 = "/B"
    /\ joint = NoJoint
    /\ ret = InvalidSchema
    /\ diag = TRUE

---------------------------------------------------------------------------
(* Properties of the NameCache on an edited stage, under SpecStale *)

\* C25: the cache does not detect staleness. In every state, for every usable
\* parent: a get that creates the entry reserves the children the parent has,
\* a get on an existing entry reads no child (the reserved names grow by the
\* returned names only) and returns no reserved name, so a child that is not
\* reserved in the entry is returned when it is asked for; updatePrimNames and
\* update reserve every child the parent has; and gets and updates drop no
\* reserved name of any entry, so a child that an update reserved is returned by
\* no get on that entry (clearPrimNames and clear erase the entry, and the next
\* call for the parent creates it again)
C25_StaleUntilUpdated ==
    \A parent \in UsableForPrims :
        LET key == getCacheKey(parent)
            children == ExistingChildNames(parent)
        IN /\ \A names \in CacheNameLists :
                 LET out == getPrimNames(parent, names)
                 IN /\ \A k \in DOMAIN m_primNameCache :
                          k \in DOMAIN out.prim /\ Used(m_primNameCache, k) \subseteq Used(out.prim, k)
                    /\ IF key \in DOMAIN m_primNameCache
                       THEN /\ out.prim[key].usedNames = m_primNameCache[key].usedNames \o out.ret
                            /\ \A i \in 1..Len(out.ret) :
                                  ~InSeq(out.ret[i], m_primNameCache[key].usedNames)
                       ELSE out.prim[key].usedNames = children \o out.ret
           /\ key \in DOMAIN m_primNameCache =>
                 \A i \in 1..Len(children) :
                    (IsValidIdentifier(children[i]) /\ children[i] \notin Used(m_primNameCache, key))
                       => getPrimName(parent, children[i]).ret = children[i]
           /\ parent \in HandleParents =>
                 /\ ToSet(children) \subseteq Used(updatePrimNames(parent).prim, key)
                 /\ ToSet(children) \subseteq Used(update(parent).prim, key)
                 /\ \A k \in DOMAIN m_primNameCache :
                       /\ k \in DOMAIN updatePrimNames(parent).prim
                       /\ Used(m_primNameCache, k) \subseteq Used(updatePrimNames(parent).prim, k)
                       /\ k \in DOMAIN update(parent).prim
                       /\ Used(m_primNameCache, k) \subseteq Used(update(parent).prim, k)

\* the entry of the pseudo-root was created through a handle while A was its
\* only child; the child F_1 was authored afterwards and a get returned F_1
C25_Witness ==
    /\ call = "getPrimName"
    /\ ret = F_1
    /\ InSeq(F_1, stage.children["/"])
    /\ "/" \in DOMAIN m_primNameCache
    /\ m_primNameCache["/"].usedNames = <<A, F_1>>

---------------------------------------------------------------------------
(* Termination of the suffix loop, under SpecFn *)

\* the sanitizer the engine was handed
EngineFunc == IF args.func = "getValidPropertyNames" THEN "getValidPropertyName" ELSE "getValidPrimName"

\* the cache when the loop over the names reaches names[nameIndex]
RECURSIVE CacheBefore(_, _, _, _)
CacheBefore(names, nameIndex, func, cache) ==
    IF nameIndex = 1 THEN cache
    ELSE UniqueNameLoop(names, nameIndex - 1, func,
                        CacheBefore(names, nameIndex - 1, func, cache),
                        getValidNameFunc(func, names[nameIndex - 1])).cache

\* how often the while loop incremented the start index of names[nameIndex]
\* before it accepted a name
SuffixIncrements(names, nameIndex, func, cache) ==
    LET before == CacheBefore(names, nameIndex, func, cache)
        after == CacheBefore(names, nameIndex + 1, func, cache)
    IN StartIndex(after, names[nameIndex]) - StartIndex(before, names[nameIndex])

\* C26: a call of the engine returned one name per candidate (the loops ended);
\* the sanitizer maps the suffixed strings of a candidate to different names for
\* different indices; and each candidate was accepted after at most (number of
\* names reserved at the start + number of candidates) increments of its index
C26_SuffixLoopBounded ==
    call \in EngineCalls =>
        LET most == Len(ReservedAtStart) + Len(args.names)
            cache == reserveNames(ValidNameCache, ReservedAtStart)
        IN /\ Len(ret) = Len(args.names)
           /\ \A i \in 1..Len(args.names) :
                 /\ \A j, k \in 1..(most + 1) :
                       j # k => getValidNameFunc(EngineFunc, args.names[i] \o <<"_">> \o FormatIndex(j))
                                 # getValidNameFunc(EngineFunc, args.names[i] \o <<"_">> \o FormatIndex(k))
                 /\ SuffixIncrements(args.names, i, EngineFunc, cache) <= most
                 /\ SuffixIncrements(args.names, i, EngineFunc, cache) >= 0

\* with F and F_1 reserved, the first of two candidates F was accepted as F_2
\* after two increments and the second, starting from that index, as F_3 after one
C26_Witness ==
    /\ call = "getValidPrimNames"
    /\ args.reservedNames = <<F, F_1>>
    /\ args.names = <<F, F>>
    /\ ret = <<F_2, F_3>>
    /\ SuffixIncrements(args.names, 1, "getValidPrimName", reserveNames(ValidNameCache, args.reservedNames)) = 2
    /\ SuffixIncrements(args.names, 2, "getValidPrimName", reserveNames(ValidNameCache, args.reservedNames)) = 1

---------------------------------------------------------------------------
(* The error report of getValidChildName, under SpecFn *)

\* C28 as claimed: getValidChildName reports the "Could not produce a valid
\* child name" runtime error exactly when it returns the empty token; when it
\* returns a name, the name "error" included, it reports no such error
C28_ErrorIffNoName ==
    call = "getValidChildName" =>
        (getValidChildName(args.parent, args.names[1]).diag <=> ret = <<>>)

---------------------------------------------------------------------------
(* Frame conditions of the NameCache, under Spec *)

\* the entries of every key other than `key` are in new as they are in old
OthersUnchanged(old, new, key) ==
    [k \in DOMAIN new \ {key} |-> new[k]] = [k \in DOMAIN old \ {key} |-> old[k]]

\* the call left the prim names and the property names of every other key alone
FramedBy(out, key) ==
    LET result == out
    IN /\ OthersUnchanged(m_primNameCache, result.prim, key)
       /\ OthersUnchanged(m_propertyNameCache, result.property, key)

\* what each operation, called for any parent (usable or not), would do in this
\* state: it changes no entry of another key, and the operations of one
\* namespace leave the map of the other namespace as it is
FramedCalls ==
    /\ \A parent \in Parents :
          LET key == getCacheKey(parent)
          IN /\ \A name \in NamesFor(parent, TRUE, CacheRawNames) :
                   /\ FramedBy(getPrimName(parent, name), key)
                   /\ FramedBy(getPrimNames(parent, <<name>>), key)
             /\ \A name \in NamesFor(parent, FALSE, CacheRawNames) :
                   /\ FramedBy(getPropertyName(parent, name), key)
                   /\ FramedBy(getPropertyNames(parent, <<name>>), key)
             /\ FramedBy(clearPrimNames(parent), key)
             /\ FramedBy(clearPropertyNames(parent), key)
             /\ FramedBy(clear(parent), key)
             /\ clearPrimNames(parent).property = m_propertyNameCache
             /\ clearPropertyNames(parent).prim = m_primNameCache
    /\ \A parent \in HandleParents :
          LET key == getCacheKey(parent)
          IN /\ FramedBy(updatePrimNames(parent), key)
             /\ FramedBy(updatePropertyNames(parent), key)
             /\ FramedBy(update(parent), key)
             /\ updatePrimNames(parent).property = m_propertyNameCache
             /\ updatePropertyNames(parent).prim = m_primNameCache

\* what a step did, whatever the names it was handed: the entries it changed,
\* created or erased in the two maps are those of one key, and a step of a
\* prim-name operation left the property-name map as it was, and conversely
FramedStep ==
    /\ \E key \in Paths \cup {""} :
          /\ OthersUnchanged(m_primNameCache, m_primNameCache', key)
          /\ OthersUnchanged(m_propertyNameCache, m_propertyNameCache', key)
    /\ call' \in PrimGetOps \cup {"clearPrimNames", "updatePrimNames"}
          => m_propertyNameCache' = m_propertyNameCache
    /\ call' \in PropertyGetOps \cup {"clearPropertyNames", "updatePropertyNames"}
          => m_primNameCache' = m_primNameCache

\* C29: an operation of the NameCache called for a parent changes no prim-name
\* entry and no property-name entry of any other key; clearPrimNames and
\* updatePrimNames leave the property-name entries as they are (the parent's
\* included), clearPropertyNames and updatePropertyNames the prim-name entries
C29_FrameCondition == []FramedCalls /\ [][FramedStep]_vars

\* the prim names of /A were cleared; its property names, which reserve F, and
\* the prim names of the pseudo-root, which reserve A, are as they were
C29_Witness ==
    /\ call = "clearPrimNames"
    /\ ~diag
    /\ "/A" \notin DOMAIN m_primNameCache
    /\ "/A" \in DOMAIN m_propertyNameCache
    /\ m_propertyNameCache["/A"].usedNames = <<F>>
    /\ "/" \in DOMAIN m_primNameCache
    /\ m_primNameCache["/"].usedNames = <<A>>

=============================================================================
